---- MODULE Spec2Model ----
(***************************************************************************)
(* Model of the template expression engine of ndr_core:                    *)
(*   ndr_core/ndr_templatetags/template_string.py  (TemplateStringVariable, *)
(*                                                  TemplateString)         *)
(*   ndr_core/ndr_templatetags/abstract_filter.py  (AbstractFilter)         *)
(*   ndr_core/ndr_templatetags/filters.py          (filter registry)        *)
(*                                                                         *)
(* A text is a sequence of one-character strings.  Constant fragments that  *)
(* the code inserts (the alert markup, the badge markup) are kept as single *)
(* multi-character elements; none of them contains a brace.                 *)
(***************************************************************************)
EXTENDS Integers, Sequences, FiniteSets, TLC

(***************************************************************************)
(* Python string primitives used by the code.                              *)
(***************************************************************************)

\* str.strip() removes these characters from both ends.
Whitespace == {" ", "\t", "\n"}

\* The characters the regular expression class \w accepts.
WordChars ==
    {"a", "b", "c", "d", "e", "f", "g", "h", "i", "j", "k", "l", "m", "n", "o",
     "p", "q", "r", "s", "t", "u", "v", "w", "x", "y", "z",
     "A", "B", "C", "D", "E", "F", "G", "H", "I", "J", "K", "L", "M", "N", "O",
     "P", "Q", "R", "S", "T", "U", "V", "W", "X", "Y", "Z",
     "0", "1", "2", "3", "4", "5", "6", "7", "8", "9", "_"}

Digits == <<"0", "1", "2", "3", "4", "5", "6", "7", "8", "9">>

DigitChars == {Digits[i] : i \in 1..10}

\* The value of one decimal digit character.
DigitValue(c) == (CHOOSE i \in 1..10 : Digits[i] = c) - 1

\* str(n) for a natural number n.
RECURSIVE IntToStr(_)
IntToStr(n) ==
    IF n < 10 THEN <<Digits[n + 1]>>
    ELSE IntToStr(n \div 10) \o <<Digits[(n % 10) + 1]>>

\* int(s) for a string of decimal digits.
RECURSIVE StrToInt(_)
StrToInt(s) ==
    IF Len(s) = 0 THEN 0
    ELSE 10 * StrToInt(SubSeq(s, 1, Len(s) - 1)) + DigitValue(s[Len(s)])

\* str.isdigit()
isdigit(s) == Len(s) > 0 /\ \A i \in 1..Len(s) : s[i] \in DigitChars

\* Position of the first occurrence of character c in s at or after from; 0 if none.
IndexFrom(s, c, from) ==
    IF \E i \in from..Len(s) : s[i] = c
    THEN CHOOSE i \in from..Len(s) : s[i] = c /\ \A j \in from..(i - 1) : s[j] # c
    ELSE 0

\* 'c in s'
HasChar(s, c) == \E i \in 1..Len(s) : s[i] = c

\* s[i:] starts with sub (1-based i).
StartsWithAt(s, sub, i) ==
    /\ i + Len(sub) - 1 <= Len(s)
    /\ \A k \in 1..Len(sub) : s[i + k - 1] = sub[k]

\* 'sub in s'
Contains(s, sub) == \E i \in 1..(Len(s) + 1) : StartsWithAt(s, sub, i)

\* str.replace(old, new) for a non-empty old: every non-overlapping occurrence,
\* left to right.
\* The first position from i on where old stands in s; 0 when there is none.
occurrence_from(s, old, i) ==
    IF \E j \in i..Len(s) : StartsWithAt(s, old, j)
    THEN CHOOSE j \in i..Len(s) :
             /\ StartsWithAt(s, old, j)
             /\ \A k \in i..(j - 1) : ~StartsWithAt(s, old, k)
    ELSE 0

RECURSIVE ReplaceFrom(_, _, _, _)
replace_occurrence(s, old, new, i, j) ==
    IF j = 0 THEN SubSeq(s, i, Len(s))
    ELSE SubSeq(s, i, j - 1) \o new \o ReplaceFrom(s, old, new, j + Len(old))

ReplaceFrom(s, old, new, i) ==
    replace_occurrence(s, old, new, i, occurrence_from(s, old, i))

str_replace(s, old, new) == ReplaceFrom(s, old, new, 1)

\* str.split(sep) for a one-character separator: empty parts are kept.
RECURSIVE str_split(_, _)
split_at(s, sep, i) ==
    IF i = 0 THEN <<s>>
    ELSE <<SubSeq(s, 1, i - 1)>> \o str_split(SubSeq(s, i + 1, Len(s)), sep)

str_split(s, sep) == split_at(s, sep, IndexFrom(s, sep, 1))

\* str.split(sep, 1): the text before and after the first separator.
split_first_at(s, i) == <<SubSeq(s, 1, i - 1), SubSeq(s, i + 1, Len(s))>>

split_first(s, sep) == split_first_at(s, IndexFrom(s, sep, 1))

\* str.strip()
RECURSIVE lstrip(_)
lstrip(s) ==
    IF Len(s) > 0 /\ s[1] \in Whitespace THEN lstrip(Tail(s)) ELSE s

RECURSIVE rstrip(_)
rstrip(s) ==
    IF Len(s) > 0 /\ s[Len(s)] \in Whitespace
    THEN rstrip(SubSeq(s, 1, Len(s) - 1)) ELSE s

strip(s) == rstrip(lstrip(s))

\* sep.join(parts)
RECURSIVE str_join(_, _)
str_join(sep, parts) ==
    IF Len(parts) = 0 THEN <<>>
    ELSE IF Len(parts) = 1 THEN parts[1]
    ELSE parts[1] \o sep \o str_join(sep, Tail(parts))

\* str.upper() / str.lower() on the letters of the alphabet.
Lowers == <<"a", "b", "c", "d", "e", "f", "g", "h", "i", "j", "k", "l", "m",
            "n", "o", "p", "q", "r", "s", "t", "u", "v", "w", "x", "y", "z">>

Uppers == <<"A", "B", "C", "D", "E", "F", "G", "H", "I", "J", "K", "L", "M",
            "N", "O", "P", "Q", "R", "S", "T", "U", "V", "W", "X", "Y", "Z">>

UpperChar(c) ==
    IF \E i \in 1..26 : Lowers[i] = c
    THEN Uppers[CHOOSE i \in 1..26 : Lowers[i] = c] ELSE c

LowerChar(c) ==
    IF \E i \in 1..26 : Uppers[i] = c
    THEN Lowers[CHOOSE i \in 1..26 : Uppers[i] = c] ELSE c

str_upper(s) == [i \in 1..Len(s) |-> UpperChar(s[i])]

str_lower(s) == [i \in 1..Len(s) |-> LowerChar(s[i])]

(***************************************************************************)
(* string.Formatter().parse: the fields of a format string, in order, and   *)
(* whether the scan ends in a ValueError (single brace, unclosed field).    *)
(***************************************************************************)

\* Position of the first brace at or after i; 0 if none.
NextBrace(s, i) ==
    IF \E j \in i..Len(s) : s[j] \in {"{", "}"}
    THEN CHOOSE j \in i..Len(s) :
            s[j] \in {"{", "}"} /\ \A k \in i..(j - 1) : s[k] \notin {"{", "}"}
    ELSE 0

\* The field name ends at '}', ':' or '!'; a '[' skips to the next ']'.
\* Returns the position of the terminator, 0 on a malformed field.
RECURSIVE ScanFieldName(_, _)
skip_bracket(s, q) == IF q = 0 THEN 0 ELSE ScanFieldName(s, q)

ScanFieldName(s, p) ==
    IF p > Len(s) THEN 0
    ELSE IF s[p] = "{" THEN 0
    ELSE IF s[p] \in {"}", ":", "!"} THEN p
    ELSE IF s[p] = "[" THEN skip_bracket(s, IndexFrom(s, "]", p + 1))
    ELSE ScanFieldName(s, p + 1)

\* The format spec ends at the '}' that balances the field's '{'.
RECURSIVE ScanFormatSpec(_, _, _)
ScanFormatSpec(s, p, count) ==
    IF p > Len(s) THEN 0
    ELSE IF s[p] = "{" THEN ScanFormatSpec(s, p + 1, count + 1)
    ELSE IF s[p] = "}"
         THEN IF count = 1 THEN p ELSE ScanFormatSpec(s, p + 1, count - 1)
    ELSE ScanFormatSpec(s, p + 1, count)

RECURSIVE FormatterScan(_, _, _)
\* A field whose format spec starts at position f and ends before '}' at e;
\* e = 0: the field is not closed.
field_with_spec(s, acc, name, f, e) ==
    IF e = 0 THEN [fields |-> acc, error |-> TRUE]
    ELSE FormatterScan(s, e + 1,
             Append(acc, [field_name |-> name, format_spec |-> SubSeq(s, f, e - 1)]))

\* The field that starts after the '{' at position j and whose name ends at
\* the terminator at position t (0: malformed).
field_at(s, acc, j, t) ==
    IF t = 0 THEN [fields |-> acc, error |-> TRUE]
    ELSE IF s[t] = "}"
    THEN FormatterScan(s, t + 1,
             Append(acc, [field_name |-> SubSeq(s, j + 1, t - 1), format_spec |-> <<>>]))
    ELSE IF s[t] = ":"
    THEN field_with_spec(s, acc, SubSeq(s, j + 1, t - 1), t + 1,
                         ScanFormatSpec(s, t + 1, 1))
    ELSE \* '!': one conversion character, then '}' or ':'
         IF t + 2 > Len(s) THEN [fields |-> acc, error |-> TRUE]
         ELSE IF s[t + 2] = "}"
         THEN FormatterScan(s, t + 3,
                  Append(acc, [field_name |-> SubSeq(s, j + 1, t - 1), format_spec |-> <<>>]))
         ELSE IF s[t + 2] # ":" THEN [fields |-> acc, error |-> TRUE]
         ELSE field_with_spec(s, acc, SubSeq(s, j + 1, t - 1), t + 3,
                              ScanFormatSpec(s, t + 3, 1))

\* The scan from position i, j the position of the next brace (0: none).
scan_at(s, i, acc, j) ==
    IF i > Len(s) \/ j = 0 THEN [fields |-> acc, error |-> FALSE]
    ELSE IF s[j] = "}" /\ (j = Len(s) \/ s[j + 1] # "}") THEN [fields |-> acc, error |-> TRUE]
    ELSE IF j = Len(s) THEN [fields |-> acc, error |-> TRUE]
    ELSE IF s[j + 1] = s[j] THEN FormatterScan(s, j + 2, acc)
    ELSE field_at(s, acc, j, ScanFieldName(s, j + 1))

FormatterScan(s, i, acc) == scan_at(s, i, acc, NextBrace(s, i))

formatter_parse(s) == FormatterScan(s, 1, <<>>)

(***************************************************************************)
(* Python dict with string keys, in insertion order: a sequence of          *)
(* <<key, value>> pairs; assigning to an existing key replaces its value.   *)
(***************************************************************************)

dict_has(d, k) == \E i \in 1..Len(d) : d[i][1] = k

dict_get(d, k) == d[CHOOSE i \in 1..Len(d) : d[i][1] = k][2]

dict_set(d, k, v) ==
    IF dict_has(d, k)
    THEN [i \in 1..Len(d) |-> IF d[i][1] = k THEN <<k, v>> ELSE d[i]]
    ELSE Append(d, <<k, v>>)

dict_keys(d) == [i \in 1..Len(d) |-> d[i][1]]

(***************************************************************************)
(* TemplateStringVariable: parsing of one placeholder body.                 *)
(***************************************************************************)

\* quote_char = None
NoQuote == ""

\* TemplateStringVariable._split_filter_with_quotes: the loop over text[i].
RECURSIVE SplitScan(_, _, _, _, _, _, _)
SplitScan(text, delimiter, i, parts, current_part, in_quotes, quote_char) ==
    IF i > Len(text)
    THEN IF strip(current_part) # <<>>
         THEN Append(parts, strip(current_part)) ELSE parts
    ELSE LET char == text[i]
         IN  IF char \in {"\"", "'"} /\ ~in_quotes
             THEN SplitScan(text, delimiter, i + 1, parts,
                            Append(current_part, char), TRUE, char)
             ELSE IF char = quote_char /\ in_quotes
             THEN IF i > 1 /\ text[i - 1] = "\\"
                  THEN SplitScan(text, delimiter, i + 1, parts,
                                 Append(current_part, char), TRUE, quote_char)
                  ELSE SplitScan(text, delimiter, i + 1, parts,
                                 Append(current_part, char), FALSE, NoQuote)
             ELSE IF char = delimiter /\ ~in_quotes
             THEN SplitScan(text, delimiter, i + 1,
                            IF strip(current_part) # <<>>
                            THEN Append(parts, strip(current_part)) ELSE parts,
                            <<>>, in_quotes, quote_char)
             ELSE SplitScan(text, delimiter, i + 1, parts,
                            Append(current_part, char), in_quotes, quote_char)

split_filter_with_quotes(text, delimiter) ==
    SplitScan(text, delimiter, 1, <<>>, <<>>, FALSE, NoQuote)

\* TemplateStringVariable._remove_quotes
remove_quotes(text0) ==
    LET text == strip(text0)
    IN  IF /\ Len(text) >= 2
           /\ \/ (text[1] = "\"" /\ text[Len(text)] = "\"")
              \/ (text[1] = "'" /\ text[Len(text)] = "'")
        THEN SubSeq(text, 2, Len(text) - 1)
        ELSE text

\* The key of a positional option: f"o{cn}", cn the enumerate() index of the
\* option among all options of the filter.
positional_key(cn) == <<"o">> \o IntToStr(cn)

\* parse_variable, lines 77-84: one option of a filter stored in the
\* configuration d; cn is its enumerate() index.
store_option(d, cn, config) ==
    IF HasChar(config, "=")
    THEN dict_set(d, split_first(config, "=")[1],
                  remove_quotes(split_first(config, "=")[2]))
    ELSE dict_set(d, positional_key(cn), remove_quotes(config))

\* parse_variable, lines 76-84: the loop over the options of one filter;
\* cn counts from 0.
RECURSIVE config_loop(_, _, _)
config_loop(configs, cn, d) ==
    IF cn >= Len(configs) THEN d
    ELSE config_loop(configs, cn + 1, store_option(d, cn, configs[cn + 1]))

\* parse_variable, lines 74-84, for one filter segment whose split p is not empty.
filter_configuration(p) ==
    IF Len(p) > 1
    THEN config_loop(split_filter_with_quotes(p[2], ","), 0, <<>>)
    ELSE <<>>

\* parse_variable, lines 70-84: ps[i] is the split of the i-th filter segment
\* on ':'.  p[0] of a segment that splits into nothing raises IndexError.
parse_filters(base, ps) ==
    IF \E i \in 1..Len(ps) : ps[i] = <<>>
    THEN [exc |-> "IndexError", variable |-> base,
          value_filters |-> <<>>, filter_configurations |-> <<>>]
    ELSE [exc |-> "none", variable |-> base,
          value_filters |-> [i \in 1..Len(ps) |-> ps[i][1]],
          filter_configurations |-> [i \in 1..Len(ps) |-> filter_configuration(ps[i])]]

\* parse_variable, lines 65-67: parts = variable.split('|')
split_parts(parts) ==
    parse_filters(parts[1],
                  [i \in 1..(Len(parts) - 1) |->
                      split_filter_with_quotes(parts[i + 1], ":")])

\* TemplateStringVariable.parse_variable
parse_variable(variable) ==
    IF HasChar(variable, "|")
    THEN split_parts(str_split(variable, "|"))
    ELSE [exc |-> "none", variable |-> variable,
          value_filters |-> <<>>, filter_configurations |-> <<>>]

\* \w+
IsWord(s) == Len(s) > 0 /\ \A i \in 1..Len(s) : s[i] \in WordChars

\* (\[\w+?\])+ : the keys of a chain of bracket groups; ok is FALSE when the
\* text is not such a chain.
RECURSIVE bracket_groups(_)
group_then(key, rest) == [ok |-> rest.ok, keys |-> <<key>> \o rest.keys]

group_at(s, q) ==
    IF q = 0 \/ ~IsWord(SubSeq(s, 2, q - 1))
    THEN [ok |-> FALSE, keys |-> <<>>]
    ELSE group_then(SubSeq(s, 2, q - 1), bracket_groups(SubSeq(s, q + 1, Len(s))))

bracket_groups(s) ==
    IF Len(s) = 0 THEN [ok |-> TRUE, keys |-> <<>>]
    ELSE IF s[1] # "[" THEN [ok |-> FALSE, keys |-> <<>>]
    ELSE group_at(s, IndexFrom(s, "]", 2))

\* re.match(r"^(\w+)(\[\w+?\])+$", variable)
matches_bracket(variable) ==
    LET b == IndexFrom(variable, "[", 1)
    IN  /\ b > 1
        /\ IsWord(SubSeq(variable, 1, b - 1))
        /\ bracket_groups(SubSeq(variable, b, Len(variable))).ok

\* re.match(r"^(\w+)(\.\w+)+$", variable)
matches_dot(variable) ==
    LET parts == str_split(variable, ".")
    IN  Len(parts) >= 2 /\ \A i \in 1..Len(parts) : IsWord(parts[i])

\* TemplateStringVariable.get_keys_from_bracket_string
get_keys_from_bracket_string(variable) ==
    LET b == IndexFrom(variable, "[", 1)
    IN  <<SubSeq(variable, 1, b - 1)>>
            \o bracket_groups(SubSeq(variable, b, Len(variable))).keys

\* TemplateStringVariable.get_keys_from_dot_string
get_keys_from_dot_string(variable) == str_split(variable, ".")

\* TemplateStringVariable.get_keys; ok = FALSE is the ValueError.
get_keys(variable) ==
    IF matches_bracket(variable)
    THEN [ok |-> TRUE, keys |-> get_keys_from_bracket_string(variable)]
    ELSE IF matches_dot(variable)
    THEN [ok |-> TRUE, keys |-> get_keys_from_dot_string(variable)]
    ELSE IF IsWord(variable)
    THEN [ok |-> TRUE, keys |-> <<variable>>]
    ELSE [ok |-> FALSE, keys |-> <<>>]

\* TemplateStringVariable.__init__: exc is "none", "IndexError" (parse_variable)
\* or "ValueError" (get_keys).
variable_object(raw, pv, ks) ==
    [raw_variable |-> raw,
     variable |-> pv.variable,
     value_filters |-> pv.value_filters,
     filter_configurations |-> pv.filter_configurations,
     keys |-> IF pv.exc = "none" /\ ks.ok THEN ks.keys ELSE <<>>,
     exc |-> IF pv.exc # "none" THEN pv.exc
             ELSE IF ks.ok THEN "none" ELSE "ValueError"]

parsed_variable(raw, pv) == variable_object(raw, pv, get_keys(pv.variable))

TemplateStringVariable(raw) == parsed_variable(raw, parse_variable(raw))

\* TemplateString.get_variables, line 256-258: the placeholder text handed to
\* TemplateStringVariable.
raw_variable_string(field) ==
    IF field.format_spec # <<>>
    THEN field.field_name \o <<":">> \o field.format_spec
    ELSE field.field_name

\* TemplateString.get_variables (flatten = False).  Fields with an empty name
\* are skipped; the first placeholder that fails to parse ends the loop with
\* its exception; a ValueError of the format-string scan comes after the
\* fields before it.
variables_result(error, vs) ==
    LET bad == {i \in 1..Len(vs) : vs[i].exc # "none"}
    IN  IF bad # {}
        THEN [exc |-> vs[CHOOSE i \in bad : \A j \in bad : i <= j].exc,
              variables |-> <<>>]
        ELSE IF error THEN [exc |-> "ValueError", variables |-> <<>>]
        ELSE [exc |-> "none", variables |-> vs]

variables_of(error, fields) ==
    variables_result(error,
        [i \in 1..Len(fields) |-> TemplateStringVariable(raw_variable_string(fields[i]))])

scanned_variables(scan) ==
    variables_of(scan.error, SelectSeq(scan.fields, LAMBDA f : f.field_name # <<>>))

get_variables(string) == scanned_variables(formatter_parse(string))


(***************************************************************************)
(* The data document: a tree of mappings, sequences and scalars.  Every     *)
(* value is a record of one shape:                                          *)
(*   t  : "str", "none", "int", "bool", "list" or "dict"                    *)
(*   s  : the text of a str, the digits of an int, True/False of a bool     *)
(*   xs : the items of a list, the values of a dict                         *)
(*   ks : the keys of a dict, in order                                      *)
(***************************************************************************)

VStr(s) == [t |-> "str", s |-> s, xs |-> <<>>, ks |-> <<>>]

VNone == [t |-> "none", s |-> <<>>, xs |-> <<>>, ks |-> <<>>]

VInt(digits) == [t |-> "int", s |-> digits, xs |-> <<>>, ks |-> <<>>]

VBool(b) ==
    [t |-> "bool", s |-> IF b THEN <<"T", "r", "u", "e">> ELSE <<"F", "a", "l", "s", "e">>,
     xs |-> <<>>, ks |-> <<>>]

VList(xs) == [t |-> "list", s |-> <<>>, xs |-> xs, ks |-> <<>>]

VDict(ks, xs) == [t |-> "dict", s |-> <<>>, xs |-> xs, ks |-> ks]

\* key in d, d[key] for a dict value
HasKey(d, key) == \E i \in 1..Len(d.ks) : d.ks[i] = key

Lookup(d, key) == d.xs[CHOOSE i \in 1..Len(d.ks) : d.ks[i] = key]

\* repr(v) and str(v) of Python for the values above (the strings of the data
\* hold no quote and no backslash, so repr quotes them with ').
RECURSIVE py_repr(_)
py_repr(v) ==
    CASE v.t = "str"  -> <<"'">> \o v.s \o <<"'">>
      [] v.t = "none" -> <<"N", "o", "n", "e">>
      [] v.t = "int"  -> v.s
      [] v.t = "bool" -> v.s
      [] v.t = "list" ->
            <<"[">> \o str_join(<<",", " ">>, [i \in 1..Len(v.xs) |-> py_repr(v.xs[i])])
                    \o <<"]">>
      [] v.t = "dict" ->
            <<"{">> \o str_join(<<",", " ">>,
                        [i \in 1..Len(v.xs) |->
                            <<"'">> \o v.ks[i] \o <<"'", ":", " ">> \o py_repr(v.xs[i])])
                    \o <<"}">>

py_str(v) == IF v.t = "str" THEN v.s ELSE py_repr(v)

\* json.dumps(v)
RECURSIVE json_dumps(_)
json_dumps(v) ==
    CASE v.t = "str"  -> <<"\"">> \o v.s \o <<"\"">>
      [] v.t = "none" -> <<"n", "u", "l", "l">>
      [] v.t = "int"  -> v.s
      [] v.t = "bool" -> str_lower(v.s)
      [] v.t = "list" ->
            <<"[">> \o str_join(<<",", " ">>, [i \in 1..Len(v.xs) |-> json_dumps(v.xs[i])])
                    \o <<"]">>
      [] v.t = "dict" ->
            <<"{">> \o str_join(<<",", " ">>,
                        [i \in 1..Len(v.xs) |->
                            <<"\"">> \o v.ks[i] \o <<"\"", ":", " ">> \o json_dumps(v.xs[i])])
                    \o <<"}">>

(***************************************************************************)
(* Path resolution.  A result is [exc, val]: exc = "none" and the value, or *)
(* the kind of the exception raised.                                        *)
(***************************************************************************)

Returned(v) == [exc |-> "none", val |-> v]

Raised(kind) == [exc |-> kind, val |-> VNone]

\* value[int(key)] of _get_nested_value for a list or a str of length n.
at_position(value, n, index) ==
    IF index >= n THEN Raised("IndexError")
    ELSE IF value.t = "list" THEN Returned(value.xs[index + 1])
    ELSE Returned(VStr(<<value.s[index + 1]>>))

\* One iteration of the loop of _get_nested_value: value = value[key], and on
\* TypeError value[int(key)] when the key is numeric.
nested_step(value, key) ==
    CASE value.t = "dict" ->
            IF HasKey(value, key) THEN Returned(Lookup(value, key)) ELSE Raised("KeyError")
      [] value.t = "list" ->
            IF isdigit(key) THEN at_position(value, Len(value.xs), StrToInt(key))
            ELSE Returned(value)
      [] value.t = "str" ->
            IF isdigit(key) THEN at_position(value, Len(value.s), StrToInt(key))
            ELSE Returned(value)
      [] OTHER ->
            IF isdigit(key) THEN Raised("TypeError") ELSE Returned(value)

\* TemplateStringVariable._get_nested_value
RECURSIVE nested_loop(_, _, _)
nested_next(r, keys, i) ==
    IF r.exc # "none" THEN r ELSE nested_loop(r.val, keys, i + 1)

nested_loop(value, keys, i) ==
    IF i > Len(keys) THEN Returned(value)
    ELSE nested_next(nested_step(value, keys[i]), keys, i)

get_nested_value(variable, data) == nested_loop(data, variable.keys, 1)

\* TemplateStringVariable.is_nested
is_nested(variable) == Len(variable.keys) > 1

\* TemplateStringVariable.get_raw_value; the data document is a mapping.
get_raw_value(variable, data) ==
    IF is_nested(variable) THEN get_nested_value(variable, data)
    ELSE IF HasKey(data, variable.variable)
    THEN Returned(Lookup(data, variable.variable))
    ELSE Raised("KeyError")

(***************************************************************************)
(* Filters.  The templates of this model use the string filters, bool,      *)
(* list, badge and default; no option of theirs is named field, color, bg   *)
(* or subfield, and no tooltip text holds a [placeholder].                  *)
(***************************************************************************)

\* Names of the filter options, as texts.
K_default == <<"d", "e", "f", "a", "u", "l", "t">>

K_subfield == <<"s", "u", "b", "f", "i", "e", "l", "d">>

K_limit == <<"l", "i", "m", "i", "t">>

K_type == <<"t", "y", "p", "e">>

K_class == <<"c", "l", "a", "s", "s">>

K_value == <<"v", "a", "l", "u", "e">>

K_field == <<"f", "i", "e", "l", "d">>

K_color == <<"c", "o", "l", "o", "r">>

K_bg == <<"b", "g">>

K_tt == <<"t", "t">>

K_o0 == <<"o", "0">>

K_o1 == <<"o", "1">>

N_upper == <<"u", "p", "p", "e", "r">>

N_lower == <<"l", "o", "w", "e", "r">>

N_bool == <<"b", "o", "o", "l">>

N_list == <<"l", "i", "s", "t">>

N_badge == <<"b", "a", "d", "g", "e">>

N_pill == <<"p", "i", "l", "l">>

N_default == <<"d", "e", "f", "a", "u", "l", "t">>

N_truncate == <<"t", "r", "u", "n", "c", "a", "t", "e">>

N_text == <<"t", "e", "x", "t">>

K_length == <<"l", "e", "n", "g", "t", "h">>

K_expandable == <<"e", "x", "p", "a", "n", "d", "a", "b", "l", "e">>

K_expand_text == <<"e", "x", "p", "a", "n", "d", "_", "t", "e", "x", "t">>

K_collapse_text == <<"c", "o", "l", "l", "a", "p", "s", "e", "_", "t", "e", "x", "t">>

K_ellipsis == <<"e", "l", "l", "i", "p", "s", "i", "s">>

\* get_get_filter_class, for the filters rendered here; "" is the ValueError
\* "Filter ... not found." that ends the function for any other name.
get_get_filter_class(filter_name) ==
    CASE filter_name \in {N_lower, N_upper}  -> "StringFilter"
      [] filter_name = N_bool                -> "BoolFilter"
      [] filter_name = N_list                -> "ListTemplateFilter"
      [] filter_name \in {N_badge, N_pill}   -> "BadgeTemplateFilter"
      [] filter_name = N_default             -> "DefaultFilter"
      [] filter_name \in {N_truncate, N_text} -> "TextTruncateFilter"
      [] OTHER                               -> ""

needed_options(class) ==
    IF class = "BoolFilter" THEN {K_o0, K_o1} ELSE {}

needed_attributes(class) == {}

allowed_attributes(class) ==
    CASE class = "ListTemplateFilter"  -> {K_type, K_class}
      [] class = "BadgeTemplateFilter" -> {K_field, K_color, K_bg, K_tt}
      [] class = "DefaultFilter"       -> {K_value}
      [] class = "TextTruncateFilter"  ->
            {K_length, K_expandable, K_expand_text, K_collapse_text, K_ellipsis}
      [] OTHER                         -> {}

\* AbstractFilter.get_configuration: the option's value; <<>> stands for both
\* None and the empty string, which the callers treat alike (falsy).
get_configuration(config, name) ==
    IF dict_has(config, name) THEN dict_get(config, name) ELSE <<>>

\* check_configuration with every test left out.
check_configuration_skipped(class, config) == TRUE

\* AbstractFilter.check_configuration: TRUE when no ValueError is raised.
check_configuration(class, config) ==
    /\ \A o \in needed_options(class) : get_configuration(config, o) # <<>>
    /\ \A a \in needed_attributes(class) : get_configuration(config, a) # <<>>
    /\ \A i \in 1..Len(config) :
          config[i][1] \in allowed_attributes(class) \cup needed_attributes(class)
                           \cup needed_options(class)
                           \cup {K_default, K_subfield, K_limit}

\* AbstractFilter.replace_key_values
replace_key_values(value) ==
    IF value = <<"_", "_", "n", "o", "n", "e", "_", "_">> THEN <<>> ELSE value

\* StringFilter.get_rendered_value: str.upper()/lower() of the value; a value
\* that is no str has no such method (AttributeError).
StringFilter_render(filter_name, value) ==
    IF value.t # "str" THEN Raised("AttributeError")
    ELSE IF filter_name = N_upper THEN Returned(VStr(str_upper(value.s)))
    ELSE Returned(VStr(str_lower(value.s)))

\* BoolFilter.get_rendered_value with its two display texts.
bool_display(value, true_value, false_value) ==
    CASE value.t = "bool" ->
           Returned(VStr(replace_key_values(
               IF value = VBool(TRUE) THEN true_value ELSE false_value)))
      [] value.t = "str" ->
           Returned(VStr(replace_key_values(
               IF str_lower(value.s) = <<"t", "r", "u", "e">>
               THEN true_value ELSE false_value)))
      [] OTHER -> Returned(value)

\* BoolFilter.get_rendered_value
BoolFilter_render(value, config) ==
    bool_display(value, get_configuration(config, K_o0), get_configuration(config, K_o1))

\* ListTemplateFilter.get_rendered_value, lines 221-240: the markup of a list
\* that is not empty.
list_markup(items, tag, list_class) ==
    <<"<", tag>>
    \o (IF list_class # <<>> THEN <<" class=\"">> \o list_class \o <<"\"">> ELSE <<>>)
    \o <<">">>
    \o str_join(<<>>, [i \in 1..Len(items) |-> <<"<li>">> \o py_str(items[i]) \o <<"</li>">>])
    \o <<"</", tag, ">">>

\* processes_list_as_whole() of the filter classes that define it.
processes_list_as_whole(class) == class \in {"ListTemplateFilter", "WeblinksFilter"}

\* ListTemplateFilter.get_rendered_value
ListTemplateFilter_render(value, config) ==
    IF value.t # "list" THEN Returned(value)
    ELSE IF Len(value.xs) = 0 THEN Returned(VStr(<<>>))
    ELSE Returned(VStr(list_markup(value.xs,
                           IF get_configuration(config, K_type) = <<"o", "l">>
                           THEN "ol" ELSE "ul",
                           get_configuration(config, K_class))))

\* str(HTMLElement): the element as markup.
HTMLElement_str(tag, attributes, content) ==
    <<"<", tag>> \o attributes \o <<">">> \o content \o <<"</", tag, ">">>

\* The attributes BadgeTemplateFilter.get_rendered_value adds, tt the tooltip.
badge_attributes(tt) ==
    <<" class=\"badge text-dark font-weight-normal\"">>
    \o (IF tt # <<>>
        THEN <<" data-toggle=\"tooltip\"", " data-placement=\"top\"", " title=\"">>
             \o tt \o <<"\"">>
        ELSE <<>>)

\* BadgeTemplateFilter.get_rendered_value without the field, color and bg
\* options, for a str value.
BadgeTemplateFilter_render(value, config) ==
    Returned(VStr(HTMLElement_str("span", badge_attributes(get_configuration(config, K_tt)),
                                  py_str(value))))

\* DefaultFilter.get_rendered_value: AbstractFilter.get_value() without a
\* subfield is the value itself.
DefaultFilter_render(value) == Returned(value)

(***************************************************************************)
(* TextTruncateFilter (filters.py, lines 1213-1299).  The markup it writes  *)
(* is kept as it stands, without the indentation of its lines.              *)
(***************************************************************************)

VARIABLE uuid    \* what the next uuid.uuid4().hex[:8] gives

\* html.escape
EscapeChar(c) ==
    IF c = "&" THEN <<"&", "a", "m", "p", ";">>
    ELSE IF c = "<" THEN <<"&", "l", "t", ";">>
    ELSE IF c = ">" THEN <<"&", "g", "t", ";">>
    ELSE IF c = "\"" THEN <<"&", "q", "u", "o", "t", ";">>
    ELSE IF c = "'" THEN <<"&", "#", "x", "2", "7", ";">>
    ELSE <<c>>

RECURSIVE html_escape(_)
html_escape(s) ==
    IF s = <<>> THEN <<>> ELSE EscapeChar(Head(s)) \o html_escape(Tail(s))

\* The length of line 1238 when none is configured.
DEFAULT_LENGTH == 200

\* The texts of lines 1240-1242 when none is configured
ELLIPSIS == "..."

EXPAND_TEXT == "Show more"

COLLAPSE_TEXT == "Show less"

\* The id of line 1265 before the digits of the uuid
ID_PREFIX == "text_"

\* The span of line 1245
SPAN_OPEN == "<span>"

TRUNCATE_OPEN == "\n<span id=\""

TRUNCATE_CONTAINER == "_container\">\n<span id=\""

TRUNCATE_TRUNCATED == "_truncated\">"

TRUNCATE_LINK == "\n<a href=\"#\" id=\""

TRUNCATE_EXPAND == "_expand\" style=\"color: #007bff; text-decoration: none; font-size: 0.9em; cursor: pointer;\">"

TRUNCATE_FULL_OPEN == "</a>\n</span>\n<span id=\""

TRUNCATE_FULL == "_full\" style=\"display: none;\">"

TRUNCATE_COLLAPSE == "_collapse\" style=\"color: #007bff; text-decoration: none; font-size: 0.9em; cursor: pointer;\">"

TRUNCATE_SCRIPT == "</a>\n</span>\n</span>\n<script>\n(function() {\nvar expandBtn = document.getElementById(\""

TRUNCATE_SCRIPT_COLLAPSE == "_expand\");\nvar collapseBtn = document.getElementById(\""

TRUNCATE_SCRIPT_TRUNCATED == "_collapse\");\nvar truncatedSpan = document.getElementById(\""

TRUNCATE_SCRIPT_FULL == "_truncated\");\nvar fullSpan = document.getElementById(\""

TRUNCATE_SCRIPT_END == "_full\");\n\nif (expandBtn) {\nexpandBtn.addEventListener(\"click\", function(e) {\ne.preventDefault();\ntruncatedSpan.style.display = \"none\";\nfullSpan.style.display = \"inline\";\n});\n}\n\nif (collapseBtn) {\ncollapseBtn.addEventListener(\"click\", function(e) {\ne.preventDefault();\nfullSpan.style.display = \"none\";\ntruncatedSpan.style.display = \"inline\";\n});\n}\n})();\n</script>\n"

\* 'not value' of line 1232
py_falsy(value) ==
    CASE value.t = "none" -> TRUE
      [] value.t = "str"  -> value.s = <<>>
      [] value.t = "int"  -> value.s = <<"0">>
      [] value.t = "bool" -> value = VBool(FALSE)
      [] OTHER            -> value.xs = <<>>

\* self.get_configuration(name) or default
configuration_or(config, name, default) ==
    IF get_configuration(config, name) # <<>> THEN get_configuration(config, name)
    ELSE default

\* str.rfind(c), counted from 1; 0 when c is not in s
RECURSIVE rfind(_, _, _)
rfind(s, c, i) ==
    IF i = 0 THEN 0 ELSE IF s[i] = c THEN i ELSE rfind(s, c, i - 1)

\* Lines 1253-1254: the word boundary is used when it is not too far back
at_word_boundary(truncated, last_space, max_length) ==
    IF (last_space - 1) * 10 > max_length * 8
    THEN SubSeq(truncated, 1, last_space - 1)
    ELSE truncated

\* Lines 1250-1254
truncated_text(text, max_length) ==
    IF HasChar(SubSeq(text, max_length + 1,
                      IF max_length + 20 < Len(text) THEN max_length + 20
                      ELSE Len(text)), " ")
    THEN at_word_boundary(SubSeq(text, 1, max_length),
                          rfind(SubSeq(text, 1, max_length), " ", max_length),
                          max_length)
    ELSE SubSeq(text, 1, max_length)

\* Lines 1264-1299: the expandable markup around unique_id
expandable_markup(unique_id, truncated, text, config) ==
    <<TRUNCATE_OPEN>> \o unique_id \o <<TRUNCATE_CONTAINER>> \o unique_id
        \o <<TRUNCATE_TRUNCATED>> \o html_escape(truncated)
        \o configuration_or(config, K_ellipsis, <<ELLIPSIS>>)
        \o <<TRUNCATE_LINK>> \o unique_id \o <<TRUNCATE_EXPAND>>
        \o configuration_or(config, K_expand_text, <<EXPAND_TEXT>>)
        \o <<TRUNCATE_FULL_OPEN>> \o unique_id \o <<TRUNCATE_FULL>>
        \o html_escape(text)
        \o <<TRUNCATE_LINK>> \o unique_id \o <<TRUNCATE_COLLAPSE>>
        \o configuration_or(config, K_collapse_text, <<COLLAPSE_TEXT>>)
        \o <<TRUNCATE_SCRIPT>> \o unique_id
        \o <<TRUNCATE_SCRIPT_COLLAPSE>> \o unique_id
        \o <<TRUNCATE_SCRIPT_TRUNCATED>> \o unique_id
        \o <<TRUNCATE_SCRIPT_FULL>> \o unique_id \o <<TRUNCATE_SCRIPT_END>>

\* Lines 1244-1299, the text longer than max_length or not
truncate_text(text, max_length, config) ==
    IF Len(text) <= max_length
    THEN <<SPAN_OPEN>> \o html_escape(text) \o <<"</span>">>
    ELSE IF get_configuration(config, K_expandable) = <<"f", "a", "l", "s", "e">>
    THEN <<SPAN_OPEN>> \o html_escape(truncated_text(text, max_length))
             \o configuration_or(config, K_ellipsis, <<ELLIPSIS>>)
             \o <<"</span>">>
    ELSE expandable_markup(<<ID_PREFIX>> \o uuid,
                           truncated_text(text, max_length), text, config)

\* Lines 1235-1238: the text, and int() of the configured length, a text of
\* digits or one that int() does not take (ValueError)
truncate_stripped(text, length, config) ==
    IF text = <<>> THEN Returned(VStr(<<>>))
    ELSE IF length = <<>>
    THEN Returned(VStr(truncate_text(text, DEFAULT_LENGTH, config)))
    ELSE IF ~isdigit(length) THEN Raised("ValueError")
    ELSE Returned(VStr(truncate_text(text, StrToInt(length), config)))

\* TextTruncateFilter.get_rendered_value
TextTruncateFilter_render(value, config) ==
    IF py_falsy(value) THEN Returned(VStr(<<>>))
    ELSE truncate_stripped(strip(py_str(value)),
                           get_configuration(config, K_length), config)

\* filter_class(name, value, configuration, data).get_rendered_value(): the
\* constructor checks the configuration (ValueError) before anything renders.
filter_new(class, filter_name, value, config) ==
    IF class = "" THEN Raised("ValueError")
    ELSE IF ~check_configuration(class, config) THEN Raised("ValueError")
    ELSE CASE class = "StringFilter"        -> StringFilter_render(filter_name, value)
           [] class = "BoolFilter"          -> BoolFilter_render(value, config)
           [] class = "ListTemplateFilter"  -> ListTemplateFilter_render(value, config)
           [] class = "BadgeTemplateFilter" -> BadgeTemplateFilter_render(value, config)
           [] class = "DefaultFilter"       -> DefaultFilter_render(value)
           [] class = "TextTruncateFilter"  -> TextTruncateFilter_render(value, config)

filter_call(filter_name, value, config) ==
    filter_new(get_get_filter_class(filter_name), filter_name, value, config)

\* TemplateStringVariable.apply_filters: the filters in chain order, each on
\* the result of the one before.
RECURSIVE filters_loop(_, _, _)
filters_next(variable, r, i) ==
    IF r.exc # "none" THEN r ELSE filters_loop(variable, r.val, i + 1)

filters_loop(variable, value, i) ==
    IF i > Len(variable.value_filters) THEN Returned(value)
    ELSE filters_next(variable,
                      filter_call(variable.value_filters[i], value,
                                  variable.filter_configurations[i]),
                      i)

apply_filters(variable, value) == filters_loop(variable, value, 1)

\* TemplateStringVariable.get_value, lines 151-156: the chain on each item of
\* a list, results that are None left out; the first exception ends the loop.
RECURSIVE filtered_values(_, _, _)
\* keep_applied without the test 'applied is not None'.
keep_applied_with_none(val, rest) ==
    IF rest.exc # "none" THEN rest
    ELSE [exc |-> "none", vals |-> <<val>> \o rest.vals]

keep_applied(val, rest) ==
    IF rest.exc # "none" THEN rest
    ELSE IF val # VNone THEN [exc |-> "none", vals |-> <<val>> \o rest.vals]
    ELSE rest

filtered_next(variable, items, i, applied) ==
    IF applied.exc # "none" THEN [exc |-> applied.exc, vals |-> <<>>]
    ELSE keep_applied(applied.val, filtered_values(variable, items, i + 1))

filtered_values(variable, items, i) ==
    IF i > Len(items) THEN [exc |-> "none", vals |-> <<>>]
    ELSE filtered_next(variable, items, i, apply_filters(variable, items[i]))

\* get_value, line 156: return filtered_values
filtered_list(f) ==
    IF f.exc # "none" THEN Raised(f.exc) ELSE Returned(VList(f.vals))

\* get_value, lines 149-158, raw the result of get_raw_value.
filter_raw(variable, raw) ==
    IF raw.exc # "none" THEN raw
    ELSE IF Len(variable.value_filters) > 0
    THEN IF raw.val.t = "list"
         THEN filtered_list(filtered_values(variable, raw.val.xs, 1))
         ELSE apply_filters(variable, raw.val)
    ELSE raw

\* TemplateStringVariable.get_value.  IndexError, KeyError and ValueError are
\* raised again as the same kind; any other exception passes through.
get_value(variable, data) == filter_raw(variable, get_raw_value(variable, data))

(***************************************************************************)
(* TemplateString                                                          *)
(***************************************************************************)

\* The character U+00A0 that html.unescape yields for &nbsp;
NBSP == "U+00A0"

\* html.unescape: the character references of the model's alphabet, with and
\* without the closing semicolon.
Entities ==
    << <<<<"a", "m", "p", ";">>, "&">>,      <<<<"a", "m", "p">>, "&">>,
       <<<<"l", "t", ";">>, "<">>,           <<<<"l", "t">>, "<">>,
       <<<<"g", "t", ";">>, ">">>,           <<<<"g", "t">>, ">">>,
       <<<<"q", "u", "o", "t", ";">>, "\"">>, <<<<"q", "u", "o", "t">>, "\"">>,
       <<<<"n", "b", "s", "p", ";">>, NBSP>>, <<<<"n", "b", "s", "p">>, NBSP>> >>

IsEntity(name) == \E i \in 1..Len(Entities) : Entities[i][1] = name

EntityChar(name) == Entities[CHOOSE i \in 1..Len(Entities) : Entities[i][1] = name][2]

\* The reference after the '&' at position i: up to 32 characters none of
\* which is white space, '<', '&', '#' or ';', and a ';' if one follows.
EntityName(s, i) ==
    LET stop == {" ", "\t", "\n", "<", "&", "#", ";"}
        ends == {j \in i..Len(s) : j - i <= 32 /\ \A k \in (i + 1)..j : s[k] \notin stop}
        last == CHOOSE j \in ends : \A k \in ends : k <= j
        semi == IF last > i /\ last < Len(s) /\ s[last + 1] = ";" THEN 1 ELSE 0
    IN  SubSeq(s, i + 1, last + semi)

\* The replacement of '&' + name: the character of the reference, or of its
\* longest prefix (two characters or more) that is a reference, or the text
\* itself.
EntityReplacement(name) ==
    LET prefixes == {x \in 2..(Len(name) - 1) : IsEntity(SubSeq(name, 1, x))}
        longest  == CHOOSE x \in prefixes : \A y \in prefixes : y <= x
    IN  IF IsEntity(name) THEN <<EntityChar(name)>>
        ELSE IF prefixes # {}
        THEN <<EntityChar(SubSeq(name, 1, longest))>> \o SubSeq(name, longest + 1, Len(name))
        ELSE <<"&">> \o name

RECURSIVE unescape_from(_, _)
unescape_reference(s, i, name) ==
    IF name = <<>> THEN <<"&">> \o unescape_from(s, i + 1)
    ELSE EntityReplacement(name) \o unescape_from(s, i + 1 + Len(name))

unescape_from(s, i) ==
    IF i > Len(s) THEN <<>>
    ELSE IF s[i] # "&" THEN <<s[i]>> \o unescape_from(s, i + 1)
    ELSE unescape_reference(s, i, EntityName(s, i))

html_unescape(s) == unescape_from(s, 1)

\* The text a placeholder is replaced in: f"{{{variable.raw_variable}}}"
raw_token(variable) == <<"{">> \o variable.raw_variable \o <<"}">>

\* TemplateStringVariable.LIST_SEPARATOR
LIST_SEPARATOR == <<",", " ">>

\* TemplateString.join_list, lines 324-330
join_safe(safe_data) ==
    IF Len(safe_data) > 1 THEN str_join(LIST_SEPARATOR, safe_data)
    ELSE IF Len(safe_data) = 1 THEN safe_data[1]
    ELSE <<>>

\* TemplateString.join_list
join_list(data) ==
    join_safe([i \in 1..Len(data) |->
                  IF data[i].t = "dict" THEN json_dumps(data[i]) ELSE py_str(data[i])])

\* Positions of the filters of the chain that have a 'default' option.
with_default(variable) ==
    {i \in 1..Len(variable.filter_configurations) :
        dict_has(variable.filter_configurations[i], K_default)}

\* get_default_value_from_variable with the loop going on after a match: the
\* default of the last filter of the chain that has one.
get_default_value_of_last_filter(variable) ==
    IF with_default(variable) = {} THEN [found |-> FALSE, value |-> <<>>]
    ELSE [found |-> TRUE,
          value |-> dict_get(
              variable.filter_configurations[
                  CHOOSE i \in with_default(variable) :
                      \A j \in with_default(variable) : i >= j],
              K_default)]

\* TemplateString.get_default_value_from_variable: the 'default' option of the
\* first filter of the chain that has one; found = FALSE is None.
get_default_value_from_variable(variable) ==
    IF with_default(variable) = {} THEN [found |-> FALSE, value |-> <<>>]
    ELSE [found |-> TRUE,
          value |-> dict_get(
              variable.filter_configurations[
                  CHOOSE i \in with_default(variable) :
                      \A j \in with_default(variable) : i <= j],
              K_default)]

\* str(e) of the exception get_formatted_string catches; the text of the
\* inner exception is left out.
ErrorText(kind) ==
    CASE kind = "KeyError"   -> <<"'Key not found in data: ...'">>
      [] kind = "IndexError" -> <<"Key not found in list: ...">>
      [] OTHER               -> <<"Could not parse variable: ...">>

ALERT_OPEN == "<div class=\"alert alert-danger\" role=\"alert\">"

ALERT_CLOSE == "</div>"

\* TemplateString.get_error
get_error(se, kind) ==
    IF se THEN <<ALERT_OPEN>> \o ErrorText(kind) \o <<ALERT_CLOSE>> ELSE <<>>

\* get_formatted_string, lines 293-298: the default through the filters, the
\* raw default when a filter fails.
filtered_default(default_value, applied) ==
    IF applied.exc = "none" THEN py_str(applied.val) ELSE default_value

\* get_formatted_string, lines 289-300: the replacement after KeyError or
\* IndexError, default_value the result of get_default_value_from_variable.
missing_replacement(variable, se, kind, default_value) ==
    IF default_value.found
    THEN [branch |-> "default", exc |-> kind,
          text |-> IF Len(variable.value_filters) > 0
                   THEN filtered_default(default_value.value,
                            apply_filters(variable, VStr(default_value.value)))
                   ELSE default_value.value]
    ELSE [branch |-> "error", exc |-> kind, text |-> get_error(se, kind)]

\* The body of the loop of get_formatted_string for one variable, r the
\* outcome of variable.get_value(self.data): which branch runs and the text
\* that replaces the placeholder.  branch "raise" is an exception that no
\* except clause of the loop catches.
render_result(variable, se, r) ==
    CASE r.exc = "none" ->
           [branch |-> "value", exc |-> "none",
            text |-> IF r.val.t = "list" THEN join_list(r.val.xs) ELSE py_str(r.val)]
      [] r.exc \in {"KeyError", "IndexError"} ->
           missing_replacement(variable, se, r.exc,
                               get_default_value_from_variable(variable))
      [] r.exc = "ValueError" ->
           [branch |-> "error", exc |-> r.exc, text |-> get_error(se, r.exc)]
      [] OTHER ->
           [branch |-> "raise", exc |-> r.exc, text |-> <<>>]

render_variable(variable, document, se) ==
    render_result(variable, se, get_value(variable, document))

(***************************************************************************)
(* Inputs.                                                                  *)
(***************************************************************************)

\* The most pieces a template is made of.
MaxPieces == 2

\* Pieces of text and placeholders a template is put together from.
Pieces ==
    {
       \* x  (plain text)
       <<"x", " ">>,
       \* {{a}} (escaped braces: the literal text {a})
       <<"{", "{", "a", "}", "}">>,
       \* &amp; (a character reference)
       <<"&", "a", "m", "p", ";">>,
       \* {a}
       <<"{", "a", "}">>,
       \* {a.b}
       <<"{", "a", ".", "b", "}">>,
       \* {a.0}
       <<"{", "a", ".", "0", "}">>,
       \* {a-b} (base path that is no identifier, dot chain or bracket chain)
       <<"{", "a", "-", "b", "}">>,
       \* {a|} (empty filter segment)
       <<"{", "a", "|", "}">>,
       \* {a|upper}
       <<"{", "a", "|", "u", "p", "p", "e", "r", "}">>,
       \* {a|default}
       <<"{", "a", "|", "d", "e", "f", "a", "u", "l", "t", "}">>,
       \* {a|list}
       <<"{", "a", "|", "l", "i", "s", "t", "}">>,
       \* {a|upper:default=d}
       <<"{", "a", "|", "u", "p", "p", "e", "r", ":", "d", "e", "f", "a", "u", "l", "t", "=", "d", "}">>,
       \* {a|nofilter:default=d} (unknown filter)
       <<"{", "a", "|", "n", "o", "f", "i", "l", "t", "e", "r", ":", "d", "e", "f", "a", "u", "l", "t", "=", "d", "}">>,
       \* {a|upper:default=d|default:default=E} (two defaults)
       <<"{", "a", "|", "u", "p", "p", "e", "r", ":", "d", "e", "f", "a", "u", "l", "t", "=", "d", "|", "d", "e", "f", "a", "u", "l", "t", ":", "d", "e", "f", "a", "u", "l", "t", "=", "E", "}">>,
       \* {v|badge:tt="a, b=c"}
       <<"{", "v", "|", "b", "a", "d", "g", "e", ":", "t", "t", "=", "\"", "a", ",", " ", "b", "=", "c", "\"", "}">>,
       \* {v|badge:"a=b"} (quoted positional option)
       <<"{", "v", "|", "b", "a", "d", "g", "e", ":", "\"", "a", "=", "b", "\"", "}">>,
       \* {v|badge:tt=a:b} (second colon)
       <<"{", "v", "|", "b", "a", "d", "g", "e", ":", "t", "t", "=", "a", ":", "b", "}">>,
       \* {v|badge:tt="a|b"} (quoted pipe)
       <<"{", "v", "|", "b", "a", "d", "g", "e", ":", "t", "t", "=", "\"", "a", "|", "b", "\"", "}">>,
       \* {v|bool:default=d,Y,N} (positional options after a named one)
       <<"{", "v", "|", "b", "o", "o", "l", ":", "d", "e", "f", "a", "u", "l", "t", "=", "d", ",", "Y", ",", "N", "}">>
    }

RECURSIVE Concat(_)
Concat(seq) == IF Len(seq) = 0 THEN <<>> ELSE seq[1] \o Concat(Tail(seq))

Templates ==
    {Concat(ps) : ps \in UNION {[1..n -> Pieces] : n \in 1..MaxPieces}}

K_a == <<"a">>

K_b == <<"b">>

K_v == <<"v">>

\* A document whose value under a is the text of the placeholder {a|upper}.
TokenDocument ==
    VDict(<<K_a, K_v>>,
          <<VStr(<<"{", "a", "|", "u", "p", "p", "e", "r", "}">>), VStr(<<"p">>)>>)

\* Data documents: the value under a is missing, a str, null, a number, a
\* mapping, and lists with and without a null item; v is a str.
Docs ==
    {VDict(<<>>, <<>>),
     VDict(<<K_a, K_v>>, <<VStr(<<"p", "q">>), VStr(<<"p">>)>>),
     TokenDocument,
     VDict(<<K_a, K_v>>, <<VNone, VStr(<<"p">>)>>),
     VDict(<<K_a, K_v>>, <<VInt(<<"5">>), VStr(<<"p">>)>>),
     VDict(<<K_a, K_v>>, <<VDict(<<K_b>>, <<VStr(<<"p">>)>>), VStr(<<"p">>)>>),
     VDict(<<K_a, K_v>>, <<VList(<<>>), VStr(<<"p">>)>>),
     VDict(<<K_a, K_v>>, <<VList(<<VStr(<<"p">>)>>), VStr(<<"p">>)>>),
     VDict(<<K_a, K_v>>, <<VList(<<VStr(<<"a">>), VStr(<<"b">>)>>), VStr(<<"p">>)>>),
     VDict(<<K_a, K_v>>, <<VList(<<VStr(<<"p">>), VNone, VStr(<<"q">>)>>), VStr(<<"p">>)>>)}

(***************************************************************************)
(* The state machine: one TemplateString from construction to the return of *)
(* get_formatted_string.                                                    *)
(***************************************************************************)

VARIABLES
    pc,                \* "new", "constructed", "loop", "done" or "raised"
    template,          \* the string argument of TemplateString(...)
    data,              \* self.data
    show_errors,       \* self.show_errors
    string,            \* self.string
    variables,         \* self.variables
    formatted_string,  \* the local formatted_string of get_formatted_string
    vi,                \* position of the loop over self.variables (from 1)
    branch,            \* what the last loop iteration did with its variable
    subst,             \* the text the last loop iteration put in
    exc,               \* the exception that left the call; "none" if none
    tsv,               \* the object TemplateStringVariable(variable) sets up
    html,              \* the argument of sanitize_html(field_content)
    field_content,     \* the local field_content of sanitize_html
    empty_element_match, \* the local empty_element_match of sanitize_html
    markup,            \* the text argument of TextPreRenderer(text, request)
    db,                \* the UI elements and pages of the database
    self_text,         \* self.text of the TextPreRenderer
    block_titles,      \* self.block_titles
    rendered_text,     \* the local rendered_text of the running pass
    security_breaker,  \* the local security_breaker of the running pass
    block_counter,     \* the local block_counter of create_containers
    block_options,     \* the local options of create_containers
    first_string,      \* what the first of two get_formatted_string calls returned
    again,             \* TRUE from the second call of get_formatted_string on
    pos,               \* the local pos of _wrap_cells_in_rows
    result,            \* the local result of _wrap_cells_in_rows
    message            \* the message of the PreRenderError raised

\* The state of a TemplateString and of its rendering.
template_vars == <<template, data, show_errors, string, variables,
                   formatted_string, vi, branch, subst>>

\* The state of a TemplateStringVariable constructed on its own.
parse_vars == <<tsv>>

\* The state of a call of TemplateString.sanitize_html.
sanitize_vars == <<html, field_content, empty_element_match>>

\* The state of a TextPreRenderer and of its passes.
pre_vars == <<markup, db, self_text, block_titles, rendered_text, security_breaker,
              block_counter, block_options, pos, result, message>>

\* What every action outside the rendering of a TemplateString leaves alone.
\* The state of two calls of get_formatted_string in a row.
call_vars == <<uuid, first_string, again>>

other_vars == <<parse_vars, sanitize_vars, pre_vars, call_vars>>

vars == <<pc, exc, template_vars, parse_vars, sanitize_vars, pre_vars, call_vars>>

\* The fields of a TemplateStringVariable before __init__ has run (the class
\* attributes).
NoVariable ==
    [raw_variable |-> <<>>, variable |-> <<>>, value_filters |-> <<>>,
     filter_configurations |-> <<>>, keys |-> <<>>, exc |-> "none"]

\* A database without UI elements, pages and uploads: what render_to_string
\* gives for each UI element, the url of each page, the ids of the uploads.
NoDatabase ==
    [elements |-> [n \in {} |-> <<>>], pages |-> [n \in {} |-> <<>>],
     uploads |-> {}]

Init ==
    /\ pc = "new"
    /\ template = <<>>
    /\ data = VDict(<<>>, <<>>)
    /\ show_errors = FALSE
    /\ string = <<>>
    /\ variables = <<>>
    /\ formatted_string = <<>>
    /\ vi = 0
    /\ branch = "none"
    /\ subst = <<>>
    /\ exc = "none"
    /\ tsv = NoVariable
    /\ html = <<>>
    /\ field_content = <<>>
    /\ empty_element_match = <<>>
    /\ markup = <<>>
    /\ db = NoDatabase
    /\ self_text = <<>>
    /\ block_titles = <<>>
    /\ rendered_text = <<>>
    /\ security_breaker = 0
    /\ block_counter = 0
    /\ block_options = [titled |-> FALSE, title |-> <<>>, collapsible |-> FALSE,
                        back_to_top |-> FALSE]
    /\ pos = 0
    /\ result = <<>>
    /\ message = ""
    /\ uuid = <<>>
    /\ first_string = <<>>
    /\ again = FALSE

\* TemplateString.__init__, lines 246-248, gv the outcome of get_variables
construct_set(t, d, se, s, gv) ==
    /\ template' = t
    /\ data' = d
    /\ show_errors' = se
    /\ string' = s
    /\ variables' = gv.variables
    /\ exc' = gv.exc
    /\ pc' = IF gv.exc = "none" THEN "constructed" ELSE "raised"

\* TemplateString.__init__, s the unescaped string
construct_with(t, d, se, s) == construct_set(t, d, se, s, get_variables(s))

\* TemplateString.__init__(string, data, show_errors)
Construct ==
    /\ pc = "new"
    /\ \E t \in Templates, d \in Docs, se \in BOOLEAN :
          construct_with(t, d, se, html_unescape(t))
    /\ UNCHANGED <<formatted_string, vi, branch, subst>>
    /\ UNCHANGED other_vars

\* get_formatted_string, line 280: formatted_string = self.string
GetFormattedString ==
    /\ pc = "constructed"
    /\ formatted_string' = string
    /\ vi' = 1
    /\ pc' = "loop"
    /\ UNCHANGED <<template, data, show_errors, string, variables, branch, subst, exc>>
    /\ UNCHANGED other_vars

\* get_formatted_string, lines 286-302: the replacement r.text is put in for
\* every occurrence of the placeholder's text, or the exception leaves the call
render_step(r) ==
    IF r.branch = "raise"
    THEN /\ pc' = "raised"
         /\ exc' = r.exc
         /\ branch' = r.branch
         /\ UNCHANGED <<formatted_string, vi, subst>>
    ELSE /\ formatted_string' =
                str_replace(formatted_string, raw_token(variables[vi]), r.text)
         /\ subst' = r.text
         /\ branch' = r.branch
         /\ vi' = vi + 1
         /\ UNCHANGED <<pc, exc>>

\* get_formatted_string, lines 281-302: one iteration of the loop
RenderVariable ==
    /\ pc = "loop"
    /\ vi <= Len(variables)
    /\ render_step(render_variable(variables[vi], data, show_errors))
    /\ UNCHANGED <<template, data, show_errors, string, variables>>
    /\ UNCHANGED other_vars

\* get_formatted_string, line 304: return mark_safe(formatted_string)
Return ==
    /\ pc = "loop"
    /\ vi > Len(variables)
    /\ pc' = "done"
    /\ UNCHANGED <<template, data, show_errors, string, variables,
                   formatted_string, vi, branch, subst, exc>>
    /\ UNCHANGED other_vars

Next ==
    \/ Construct
    \/ GetFormattedString
    \/ RenderVariable
    \/ Return

Spec == Init /\ [][Next]_vars

(***************************************************************************)
(* Properties.                                                              *)
(***************************************************************************)

\* A loop iteration has put a replacement in: branch and subst describe
\* variables[vi - 1].
Rendered == pc \in {"loop", "done"} /\ vi > 1

\* The empty data document: every base path is missing from it.
EmptyDocument == VDict(<<>>, <<>>)

MissingKinds == {"KeyError", "IndexError"}

\* C1: a malformed placeholder is recovered per variable: constructing a
\* TemplateString over a template that holds one never fails, the rendering goes
\* on to the loop of get_formatted_string.
C1_MalformedRecovered == pc = "raised" => vi > 0

\* C2: for every data document and every valid base path, path resolution
\* returns a value or fails with KeyError or IndexError, and no other exception
\* leaves the resolver.
C2_ResolverFailures ==
    pc \in {"constructed", "loop", "done", "raised"} =>
        \A i \in 1..Len(variables) :
            get_raw_value(variables[i], data).exc \in {"none"} \cup MissingKinds

\* The position of the '}' that closes the field whose name ends at t.
field_end(s, t) ==
    IF s[t] = "}" THEN t
    ELSE IF s[t] = ":" THEN ScanFormatSpec(s, t + 1, 1)
    ELSE IF s[t + 2] = "}" THEN t + 2
    ELSE ScanFormatSpec(s, t + 3, 1)

\* The text of a well-formed template outside its placeholders, from position
\* i on; j is the position of the next brace.
RECURSIVE literal_text(_, _)
literal_from(s, i, j) ==
    IF j = 0 THEN SubSeq(s, i, Len(s))
    ELSE IF s[j + 1] = s[j] THEN SubSeq(s, i, j + 1) \o literal_text(s, j + 2)
    ELSE SubSeq(s, i, j - 1) \o literal_text(s, field_end(s, ScanFieldName(s, j + 1)) + 1)

literal_text(s, i) == IF i > Len(s) THEN <<>> ELSE literal_from(s, i, NextBrace(s, i))

\* C3: when the path of a placeholder is missing from the data document and no
\* filter of its chain has a default, the placeholder is replaced by the empty
\* string with show_errors off, all text outside the placeholders staying as
\* it is, and by the inline error notice with show_errors on.  Stated for the
\* empty document, where every path is missing.
C3_MissingWithoutDefault ==
    (/\ pc = "done"
     /\ data = EmptyDocument
     /\ \A i \in 1..Len(variables) : with_default(variables[i]) = {}) =>
        IF show_errors
        THEN variables # <<>> => (branch = "error" /\ subst # <<>> /\ subst[1] = ALERT_OPEN)
        ELSE formatted_string = literal_text(string, 1)

\* The 'default' option of the first filter, in chain order, that has one.
RECURSIVE FirstDefault(_, _)
FirstDefault(configurations, i) ==
    IF dict_has(configurations[i], K_default)
    THEN dict_get(configurations[i], K_default)
    ELSE FirstDefault(configurations, i + 1)

HasDefault(variable) ==
    \E i \in 1..Len(variable.filter_configurations) :
        dict_has(variable.filter_configurations[i], K_default)

\* D through the whole chain, the raw D when the chain fails; applied is the
\* outcome of the chain on D.
ThroughChain(D, applied) == IF applied.exc = "none" THEN py_str(applied.val) ELSE D

C4_expected(variable, D) == ThroughChain(D, apply_filters(variable, VStr(D)))

C4_case(variable, raw) ==
    (raw.exc \in MissingKinds /\ HasDefault(variable)) =>
        /\ branch = "default"
        /\ subst = C4_expected(variable, FirstDefault(variable.filter_configurations, 1))
        /\ (pc = "done" /\ string = raw_token(variable)) => formatted_string = subst

\* C4: when the path of a placeholder is missing (KeyError or IndexError) and
\* a filter of its chain has a default option, the placeholder is replaced by
\* the default D of the first such filter passed through the whole chain, by
\* the raw D when the chain fails on D, and never by the error notice or the
\* empty string of the no-default case.
C4_DefaultSubstituted ==
    Rendered => C4_case(variables[vi - 1], get_raw_value(variables[vi - 1], data))

\* C4 happens: the path is missing, two filters of the chain have a default,
\* and the first default went through the chain (d through upper is D).
C4_Witness ==
    /\ Rendered
    /\ branch = "default"
    /\ Cardinality(with_default(variables[vi - 1])) = 2
    /\ subst = <<"D">>

\* The items of a sequence that are not null.
NonNull(items) == SelectSeq(items, LAMBDA x : x # VNone)

\* str(item), json.dumps(item) for a mapping.
ItemText(item) == IF item.t = "dict" THEN json_dumps(item) ELSE py_str(item)

\* The items joined in order with ', ': one item alone, no item the empty string.
CommaJoined(items) == str_join(<<",", " ">>, [i \in 1..Len(items) |-> ItemText(items[i])])

\* The chain of the variable on each item of the sequence.
PerItem(variable, items) == [i \in 1..Len(items) |-> apply_filters(variable, items[i])]

ItemValues(results) == [i \in 1..Len(results) |-> results[i].val]

C5_joined(results) ==
    /\ branch = "value"
    /\ subst = CommaJoined(NonNull(ItemValues(results)))

C5_unfailing(results) ==
    (\A i \in 1..Len(results) : results[i].exc = "none") => C5_joined(results)

C5_original_case(variable, raw) ==
    (raw.exc = "none" /\ raw.val.t = "list") => C5_unfailing(PerItem(variable, raw.val.xs))

C5_filtered(results) ==
    IF \A i \in 1..Len(results) : results[i].exc = "none"
    THEN C5_joined(results)
    ELSE branch # "value"

C5_case(variable, raw) ==
    (raw.exc = "none" /\ raw.val.t = "list") =>
        IF Len(variable.value_filters) > 0
        THEN C5_filtered(PerItem(variable, raw.val.xs))
        ELSE branch = "value" /\ subst = CommaJoined(raw.val.xs)

C6_case(variable, raw) ==
    (/\ raw.exc = "none"
     /\ raw.val.t = "list"
     /\ Len(variable.value_filters) > 0
     /\ processes_list_as_whole(get_get_filter_class(variable.value_filters[1]))) =>
        subst = py_str(apply_filters(variable, raw.val).val)

\* C6: when a placeholder resolves to a sequence and its leading filter
\* declares whole-list processing, the chain runs once on the whole sequence
\* and its single result is put in.
C6_WholeList ==
    Rendered => C6_case(variables[vi - 1], get_raw_value(variables[vi - 1], data))

\* Every stored option of every filter of every variable satisfies P.
AllOptions(P(_, _)) ==
    \A i \in 1..Len(variables) :
        \A j \in 1..Len(variables[i].filter_configurations) :
            \A k \in 1..Len(variables[i].filter_configurations[j]) :
                P(variables[i].filter_configurations[j][k][1],
                  variables[i].filter_configurations[j][k][2])

\* A quoted span opens in the text and does not close in it.
OpenQuote(text) ==
    \E q \in {"\"", "'"} : Cardinality({i \in 1..Len(text) : text[i] = q}) % 2 = 1

\* C7: option splitting is quote-aware: a ',' or '=' inside a quoted span
\* separates nothing, so no option name ends inside a quoted span, and
\* {v|badge:tt="a, b=c"} has the one named option tt with the value a, b=c.
C7_QuoteAware ==
    /\ AllOptions(LAMBDA key, value : ~OpenQuote(key))
    /\ \A i \in 1..Len(variables) :
          variables[i].raw_variable = <<"v", "|", "b", "a", "d", "g", "e", ":", "t", "t", "=", "\"", "a", ",", " ", "b", "=", "c", "\"">> =>
              variables[i].filter_configurations = << << <<K_tt, <<"a", ",", " ", "b", "=", "c">>>> >> >>

\* The configuration of a filter segment split on its first ':' only.
FirstColonConfiguration(segment) ==
    IF HasChar(segment, ":")
    THEN filter_configuration(<<split_first(segment, ":")[1], split_first(segment, ":")[2]>>)
    ELSE <<>>

\* C8: a filter segment is split on its first ':' only, the options are all
\* of the rest and no option text after a further ':' is lost.
C8_FirstColon ==
    \A i \in 1..Len(variables) :
        \A j \in 1..Len(variables[i].filter_configurations) :
            variables[i].filter_configurations[j] =
                FirstColonConfiguration(str_split(variables[i].raw_variable, "|")[j + 1])

\* C9: the placeholder body is split on first-level '|' only: a '|' inside a
\* quoted option value starts no filter segment, so a variable has as many
\* filters as its body has '|' outside quoted spans.
C9_FirstLevelPipe ==
    \A i \in 1..Len(variables) :
        Len(variables[i].value_filters) =
            Len(split_filter_with_quotes(variables[i].raw_variable, "|")) - 1

\* The options of a configuration stored under a positional key o<n>.
Positional(configuration) ==
    {k \in 1..Len(configuration) :
        /\ Len(configuration[k][1]) > 1
        /\ configuration[k][1][1] = "o"
        /\ isdigit(Tail(configuration[k][1]))}

\* C10: the positional options of a filter have the keys o0, o1, o2, ... in
\* their order, counted among the positional options only, whatever named
\* options stand between them.
C10_PositionalKeys ==
    \A i \in 1..Len(variables) :
        \A j \in 1..Len(variables[i].filter_configurations) :
            \A n \in 0..(Cardinality(Positional(variables[i].filter_configurations[j])) - 1) :
                dict_has(variables[i].filter_configurations[j], positional_key(n))

(***************************************************************************)
(* A TemplateStringVariable constructed on its own.                         *)
(***************************************************************************)

\* The most parts a placeholder body is made of.
MaxBodyParts == 3

\* Parts of placeholder bodies: keys, dot and bracket steps, and the
\* characters that break a path.
BodyParts ==
    {<<"a">>, <<"0">>, <<".", "a">>, <<".", "0">>, <<"[", "a", "]">>, <<"[", "0", "]">>, <<".">>, <<"[">>, <<"]">>, <<"|">>, <<"|", "a">>, <<"-">>}

\* The placeholder bodies, the empty body among them.
Bodies ==
    {Concat(ps) : ps \in UNION {[1..n -> BodyParts] : n \in 0..MaxBodyParts}}

\* variable = TemplateStringVariable(body): the exception of __init__, if any,
\* leaves the call.
NewVariable ==
    /\ pc = "new"
    /\ \E body \in Bodies : tsv' = TemplateStringVariable(body)
    /\ pc' = IF tsv'.exc = "none" THEN "parsed" ELSE "raised"
    /\ exc' = tsv'.exc
    /\ UNCHANGED <<template_vars, sanitize_vars, pre_vars, call_vars>>

NextVariable == NewVariable

SpecVariable == Init /\ [][NextVariable]_vars

\* The base path of a placeholder body: the text before its first '|'.
BasePath(body) ==
    IF HasChar(body, "|") THEN SubSeq(body, 1, IndexFrom(body, "|", 1) - 1) ELSE body

\* The keys of a path read from the left: a key ends at '.', '[' or ']'.
RECURSIVE PathKeys(_, _)
PathKeys(path, key) ==
    IF Len(path) = 0 THEN (IF key = <<>> THEN <<>> ELSE <<key>>)
    ELSE IF path[1] \in {".", "[", "]"}
    THEN (IF key = <<>> THEN <<>> ELSE <<key>>) \o PathKeys(Tail(path), <<>>)
    ELSE PathKeys(Tail(path), Append(key, path[1]))

\* A path of the three forms: identifier, a.b.c or a[b][c].
RECURSIVE DotSteps(_)
DotSteps(path) ==
    \/ Len(path) = 0
    \/ /\ path[1] = "."
       /\ \E n \in 2..Len(path) :
             IsWord(SubSeq(path, 2, n)) /\ DotSteps(SubSeq(path, n + 1, Len(path)))

RECURSIVE BracketSteps(_)
BracketSteps(path) ==
    \/ Len(path) = 0
    \/ /\ path[1] = "["
       /\ \E n \in 3..Len(path) :
             /\ path[n] = "]"
             /\ IsWord(SubSeq(path, 2, n - 1))
             /\ BracketSteps(SubSeq(path, n + 1, Len(path)))

WellFormedPath(path) ==
    \E n \in 1..Len(path) :
        /\ IsWord(SubSeq(path, 1, n))
        /\ \/ DotSteps(SubSeq(path, n + 1, Len(path)))
           \/ BracketSteps(SubSeq(path, n + 1, Len(path)))

\* C11: parsing a placeholder fails with the syntax error (ValueError) exactly
\* when its body is empty or its base path is none of identifier, dot chain or
\* bracket chain, and parses otherwise; the keys of an accepted path are its
\* keys in order, the same for a.b.c and a[b][c].
C11_SyntaxError ==
    pc \in {"parsed", "raised"} /\ tsv.raw_variable \in Bodies =>
        IF tsv.raw_variable = <<>> \/ ~WellFormedPath(BasePath(tsv.raw_variable))
        THEN pc = "raised" /\ exc = "ValueError"
        ELSE pc = "parsed" /\ tsv.keys = PathKeys(BasePath(tsv.raw_variable), <<>>)

(***************************************************************************)
(* Filter configuration.                                                    *)
(***************************************************************************)

\* The option is in the configuration with a value that is not empty.
OptionGiven(config, name) ==
    \E k \in 1..Len(config) : config[k][1] = name /\ config[k][2] # <<>>

\* The keys a filter class takes: required, allowed, and the three that every
\* filter takes.
KnownKeys(class) ==
    needed_options(class) \cup needed_attributes(class) \cup allowed_attributes(class)
        \cup {K_default, K_subfield, K_limit}

\* The filter name is unknown, a required option is missing or empty, or a key
\* of the configuration is none the filter class takes.
ConfigurationError(class, config) ==
    \/ class = ""
    \/ \E o \in needed_options(class) \cup needed_attributes(class) : ~OptionGiven(config, o)
    \/ \E k \in 1..Len(config) : config[k][1] \notin KnownKeys(class)

\* A filter is constructed on the value: a scalar, or a sequence with an item.
Constructs(raw) ==
    /\ raw.exc = "none"
    /\ raw.val.t = "list" => Len(raw.val.xs) > 0

\* The first filter of the chain fails in its constructor on the resolved value.
FirstFilterFails(variable, raw) ==
    /\ Len(variable.value_filters) > 0
    /\ Constructs(raw)
    /\ ConfigurationError(get_get_filter_class(variable.value_filters[1]),
                          variable.filter_configurations[1])

ErrorNotice == <<ALERT_OPEN>> \o ErrorText("ValueError") \o <<ALERT_CLOSE>>

C12_original_case(variable, raw) ==
    FirstFilterFails(variable, raw) => branch = "error" /\ subst = ErrorNotice

C12_case(variable, raw) ==
    FirstFilterFails(variable, raw) =>
        /\ branch = "error"
        /\ subst = IF show_errors THEN ErrorNotice ELSE <<>>

\* The template is two different placeholders and nothing else.
TwoPlaceholders ==
    /\ Len(variables) = 2
    /\ raw_token(variables[1]) # raw_token(variables[2])
    /\ string = raw_token(variables[1]) \o raw_token(variables[2])

\* The first filter of one of the two placeholders fails in its constructor.
OneFails ==
    \E i \in 1..2 :
        FirstFilterFails(variables[i], get_raw_value(variables[i], data))

\* Each of the two placeholders has its own rendering, r1 and r2.
C12_each(r1, r2) == formatted_string = r1.text \o r2.text

NBSP_ENTITY == <<"&", "n", "b", "s", "p", ";">>

\* The position of the last character of the run of \w characters of s that
\* starts at i; i - 1 when s[i] is not such a character.
RECURSIVE WordEnd(_, _)
WordEnd(s, i) ==
    IF i <= Len(s) /\ s[i] \in WordChars THEN WordEnd(s, i + 1) ELSE i - 1

\* '</tag>' stands at position p of s
closing_at(s, p, tag) == StartsWithAt(s, <<"<", "/">> \o tag \o <<">">>, p)

\* The pattern without its optional group: only <tag></tag>.
element_after_without_nbsp(s, e, tag) ==
    IF closing_at(s, e + 1, tag) THEN <<tag, <<>>>> ELSE <<>>

\* What follows '<tag>' that ends at position e: group 2 of the pattern and
\* the closing tag, nbsp first as the greedy (&nbsp;)? tries it.
element_after(s, e, tag) ==
    IF StartsWithAt(s, NBSP_ENTITY, e + 1)
          /\ closing_at(s, e + 1 + Len(NBSP_ENTITY), tag)
    THEN <<tag, NBSP_ENTITY>>
    ELSE IF closing_at(s, e + 1, tag) THEN <<tag, <<>>>> ELSE <<>>

\* The tag that was opened from i to e, followed by its closing tag.
element_closed(s, i, e) ==
    IF e < i + 1 \/ e + 1 > Len(s) \/ s[e + 1] # ">" THEN <<>>
    ELSE element_after(s, e + 1, SubSeq(s, i + 1, e))

\* The match of  <(\w+)>(&nbsp;)?</\1>  that starts at position i of s, as
\* the tuple of its groups; <<>> when there is none.
element_at(s, i) ==
    IF s[i] # "<" THEN <<>> ELSE element_closed(s, i, WordEnd(s, i + 1))

\* The text a match stands for: f"<{match[0]}>{match[1]}</{match[0]}>"
element_text(match) ==
    <<"<">> \o match[1] \o <<">">> \o match[2] \o <<"<", "/">> \o match[1] \o <<">">>

\* re.findall(pattern, field_content): the groups of the non-overlapping
\* matches, left to right.
RECURSIVE findall_from(_, _)
found_at(s, i, match) ==
    IF match = <<>> THEN findall_from(s, i + 1)
    ELSE <<match>> \o findall_from(s, i + Len(element_text(match)))

findall_from(s, i) ==
    IF i > Len(s) THEN <<>> ELSE found_at(s, i, element_at(s, i))

findall_empty_elements(s) == findall_from(s, 1)

\* The for loop of lines 349-350: every match is replaced everywhere.
RECURSIVE replace_matches(_, _)
replace_matches(s, matches) ==
    IF matches = <<>> THEN s
    ELSE replace_matches(str_replace(s, element_text(Head(matches)), <<>>),
                         Tail(matches))

\* The whole function: the while loop of lines 347-351 run to its end.
RECURSIVE sanitize_loop(_, _)
RECURSIVE sanitize_next(_)
sanitize_loop(s, matches) ==
    IF matches = <<>> THEN s
    ELSE sanitize_next(replace_matches(s, matches))

sanitize_next(s) == sanitize_loop(s, findall_empty_elements(s))

sanitize_html(s) == sanitize_next(s)

MaxHtmlParts == 4

HtmlParts ==
    {<<"<", "p", ">">>, <<"<", "/", "p", ">">>,
     <<"<", "d", "i", "v", ">">>, <<"<", "/", "d", "i", "v", ">">>,
     NBSP_ENTITY, <<"x">>, <<" ">>}

\* "<p></p>Hello<span>&nbsp;</span>"
HtmlExample ==
    <<"<", "p", ">", "<", "/", "p", ">", "H", "e", "l", "l", "o",
      "<", "s", "p", "a", "n", ">">> \o NBSP_ENTITY
        \o <<"<", "/", "s", "p", "a", "n", ">">>

HtmlTexts ==
    {Concat(ps) : ps \in UNION {[1..n -> HtmlParts] : n \in 0..MaxHtmlParts}}
        \cup {HtmlExample}

\* sanitize_html(field_content) up to the first findall, lines 341-346
sanitize_enter(fc, matches) ==
    /\ html' = fc
    /\ field_content' = fc
    /\ empty_element_match' = matches
    /\ pc' = "sanitize"

SanitizeHtml ==
    /\ pc = "new"
    /\ \E fc \in HtmlTexts : sanitize_enter(fc, findall_empty_elements(fc))
    /\ UNCHANGED <<exc, template_vars, parse_vars, pre_vars, call_vars>>

\* One pass of the while loop, lines 347-351
sanitize_pass(fc) ==
    /\ field_content' = fc
    /\ empty_element_match' = findall_empty_elements(fc)

SanitizePass ==
    /\ pc = "sanitize"
    /\ empty_element_match # <<>>
    /\ sanitize_pass(replace_matches(field_content, empty_element_match))
    /\ UNCHANGED <<pc, html, exc, template_vars, parse_vars, pre_vars, call_vars>>

\* return mark_safe(field_content), line 353
SanitizeReturn ==
    /\ pc = "sanitize"
    /\ empty_element_match = <<>>
    /\ pc' = "sanitized"
    /\ UNCHANGED <<html, field_content, empty_element_match, exc,
                   template_vars, parse_vars, pre_vars, call_vars>>

NextSanitize == SanitizeHtml \/ SanitizePass \/ SanitizeReturn

SpecSanitize == Init /\ [][NextSanitize]_vars

\* An opening tag without attributes stands in s from i to j, and its closing
\* tag follows it at once or after one &nbsp;.
EmptyPairAt(s, i, j) ==
    /\ s[i] = "<"
    /\ s[j] = ">"
    /\ j > i + 1
    /\ \A k \in (i + 1)..(j - 1) : s[k] \in WordChars
    /\ \/ closing_at(s, j + 1, SubSeq(s, i + 1, j - 1))
       \/ /\ StartsWithAt(s, NBSP_ENTITY, j + 1)
          /\ closing_at(s, j + 7, SubSeq(s, i + 1, j - 1))

HasEmptyPair(s) ==
    \E i \in 1..Len(s) : \E j \in i..Len(s) : EmptyPairAt(s, i, j)

NestedEmpty == <<"<", "d", "i", "v", ">", "<", "p", ">", "<", "/", "p", ">",
                 "<", "/", "d", "i", "v", ">">>

C13_result(arg, out) ==
    /\ ~HasEmptyPair(out)
    /\ sanitize_html(out) = out
    /\ Len(out) <= Len(arg)
    /\ arg = HtmlExample => out = <<"H", "e", "l", "l", "o">>
    /\ arg = NestedEmpty => out = <<>>

C13_shorter(fc, next) == Len(next) < Len(fc)

\* C13: sanitize_html removes the attribute-less empty element pairs (with
\* nothing or one &nbsp; inside) again and again until none is left, so a
\* pair that becomes empty by a removal goes too; every pass of the loop
\* makes the text shorter, so the call ends; sanitizing the result again
\* changes nothing; "<p></p>Hello<span>&nbsp;</span>" gives "Hello".
C13_SanitizeHtml ==
    /\ pc = "sanitize" /\ empty_element_match # <<>> =>
           C13_shorter(field_content,
                       replace_matches(field_content, empty_element_match))
    /\ pc = "sanitized" => C13_result(html, field_content)

C13_Witness ==
    /\ pc = "sanitized"
    /\ html = HtmlExample
    /\ field_content = <<"H", "e", "l", "l", "o">>

(***************************************************************************)
(* TextPreRenderer (ndr_core/ndr_template_tags.py).                        *)
(*                                                                         *)
(* The text of a renderer is a sequence of one-character strings.  The      *)
(* markup that the container, toc, element, url and link passes write is    *)
(* kept as multi-character elements: none of them holds a bracket, and the  *)
(* ones that hold a line break are listed in MultiLine.  The markers and    *)
(* the code blocks, which later patterns read, are written in characters.   *)
(***************************************************************************)

\* The smallest position of a set of positions; 0 for the empty set.
FirstOf(ps) == IF ps = {} THEN 0 ELSE CHOOSE p \in ps : \A q \in ps : p <= q

\* str.find(sub, from): the first position of sub in s at or after from, 0
\* when there is none.
Find(s, sub, from) ==
    FirstOf({i \in from..(Len(s) - Len(sub) + 1) : StartsWithAt(s, sub, i)})

\* s with the characters from i up to j - 1 replaced by new
Splice(s, i, j, new) == SubSeq(s, 1, i - 1) \o new \o SubSeq(s, j, Len(s))

\* str.replace(old, new, 1)
replace_first_at(s, old, new, i) ==
    IF i = 0 THEN s ELSE Splice(s, i, i + Len(old), new)

replace_first(s, old, new) == replace_first_at(s, old, new, Find(s, old, 1))

\* str.replace(old, new), one occurrence after the other
RECURSIVE replace_all(_, _, _)
replace_all_at(s, old, new, i) ==
    IF i = 0 THEN s
    ELSE SubSeq(s, 1, i - 1) \o new
             \o replace_all(SubSeq(s, i + Len(old), Len(s)), old, new)

replace_all(s, old, new) == replace_all_at(s, old, new, Find(s, old, 1))

\* The position of the last element of the run of elements of class that
\* starts at i; i - 1 when s[i] is not in class.
RECURSIVE RunEnd(_, _, _)
RunEnd(s, i, class) ==
    IF i <= Len(s) /\ s[i] \in class THEN RunEnd(s, i + 1, class) ELSE i - 1

\* The markup with a line break in it (the f-strings of lines 142-149,
\* 185-191 and 545-550).
COLLAPSE_HEADER_OPEN == "\n<h3 class=\"card-title mb-0\">"

COLLAPSE_HEADER_BUTTON == "</h3>\n<button class=\"btn btn-sm btn-outline-secondary\" type=\"button\"\ndata-bs-toggle=\"collapse\" data-bs-target=\"#"

COLLAPSE_HEADER_CONTROLS == "\"\naria-expanded=\"true\" aria-controls=\""

COLLAPSE_HEADER_CLOSE == "\">\n<i class=\"fas fa-chevron-up collapse-icon\"></i>\n</button>\n"

BACK_TO_TOP == "\n<div class=\"text-end mt-3\">\n<a href=\"#top\" class=\"btn btn-sm btn-outline-primary\">\n<i class=\"fas fa-arrow-up\"></i> Back to Top\n</a>\n</div>\n"

ORCID_OPEN == "\n<a href=\"https://orcid.org/"

ORCID_IMAGE == "\" target=\"_blank\" class=\"orcid-link\" rel=\"noopener noreferrer\">\n<img src=\"/static/ndr_core/images/orcid.svg\" alt=\"ORCID\" style=\"width: 16px; height: 16px; vertical-align: middle;\">\n"

ORCID_CLOSE == "\n</a>\n"

MultiLine ==
    {COLLAPSE_HEADER_OPEN, COLLAPSE_HEADER_BUTTON, COLLAPSE_HEADER_CONTROLS,
     COLLAPSE_HEADER_CLOSE, BACK_TO_TOP, ORCID_OPEN, ORCID_IMAGE, ORCID_CLOSE}

\* What the pattern '.' does not match.
IsLineBreak(c) == c = "\n" \/ c \in MultiLine

\* The pattern  (.*?)\]\]  from p: the position of the first ']]' at or after
\* p when no line break stands before it, else 0.
on_one_line(s, p, q) ==
    IF q > 0 /\ \A k \in p..(q - 1) : ~IsLineBreak(s[k]) THEN q ELSE 0

lazy_close(s, p) == on_one_line(s, p, Find(s, <<"]", "]">>, p))

\* The end (the position after it) of a match that closes at q.
close_end(q) == IF q = 0 THEN 0 ELSE q + 2

\* The pattern  (?:[seps](.*?))?\]\]  from p: the position after the match,
\* 0 when there is none.
token_end(s, p, seps) ==
    IF p <= Len(s) /\ s[p] \in seps THEN close_end(lazy_close(s, p + 1))
    ELSE IF StartsWithAt(s, <<"]", "]">>, p) THEN p + 2 ELSE 0

\* The optional group of a match from p to e: empty when it did not take part.
token_param(s, p, e) == IF e <= p + 2 THEN <<>> ELSE SubSeq(s, p + 1, e - 3)

\* A pattern that does not match.
NoMatch == [end |-> 0]

\* container_regex, line 22, matched at position i of s
container_match(action, type, s, i, p, e) ==
    IF e = 0 THEN NoMatch
    ELSE [end |-> e, start |-> i, action |-> action, type |-> type,
          param |-> token_param(s, p, e)]

container_tail(action, type, s, i, p) ==
    container_match(action, type, s, i, p, token_end(s, p, {":", "="}))

container_type(action, s, i, p) ==
    IF StartsWithAt(s, <<"b", "l", "o", "c", "k">>,
            p) THEN container_tail(action, "block", s, i, p + 5)
    ELSE IF StartsWithAt(s, <<"c", "e", "l", "l">>,
            p) THEN container_tail(action, "cell", s, i, p + 4)
    ELSE NoMatch

container_at(s, i) ==
    IF ~StartsWithAt(s, <<"[", "[">>, i) THEN NoMatch
    ELSE IF StartsWithAt(s, <<"s", "t", "a", "r", "t", "_">>,
            i + 2) THEN container_type("start", s, i, i + 8)
    ELSE IF StartsWithAt(s, <<"e", "n", "d", "_">>,
            i + 2) THEN container_type("end", s, i, i + 6)
    ELSE NoMatch

\* code_start_regex, line 23
code_start_match(s, i, p, e) ==
    IF e = 0 THEN NoMatch
    ELSE [end |-> e, start |-> i, language |-> token_param(s, p, e)]

code_start_at(s, i) ==
    IF ~StartsWithAt(s, <<"[", "[", "s", "t", "a", "r", "t", "_", "c", "o",
            "d", "e">>, i) THEN NoMatch
    ELSE code_start_match(s, i, i + 12, token_end(s, i + 12, {"="}))

\* code_end_regex, line 24, and toc_regex, line 25
CODE_END == <<"[", "[", "e", "n", "d", "_", "c", "o", "d", "e", "]", "]">>

TOC == <<"[", "[", "t", "o", "c", "]", "]">>

\* The characters of an element name, [a-zA-Z0-9_-], and of a link or page
\* name, [0-9a-zA-Z_ -]
ElementNameChars == WordChars \cup {"-"}

LinkNameChars == WordChars \cup {"-", " "}

\* A name of the class from p that ']]' follows: the position after the match
\* when the name has at least least characters, else 0.
name_end(s, p, e, least) ==
    IF e - p + 1 >= least /\ StartsWithAt(s, <<"]", "]">>,
            e + 1) THEN e + 3 ELSE 0

name_match(s, i, p, e, kind) ==
    IF e = 0 THEN NoMatch
    ELSE [end |-> e, start |-> i, template |-> kind,
          name |-> SubSeq(s, p, e - 3)]

\* ui_element_regex, line 18
ui_element_at(s, i) ==
    IF ~StartsWithAt(s, <<"[", "[", "e", "l", "e", "m", "e", "n", "t", "|">>,
            i) THEN NoMatch
    ELSE name_match(s, i, i + 10,
                    name_end(s, i + 10, RunEnd(s, i + 10, ElementNameChars),
                            1),
                    <<"e", "l", "e", "m", "e", "n", "t">>)

\* url_element_regex, line 20
url_element_at(s, i) ==
    IF ~StartsWithAt(s, <<"[", "[", "u", "r", "l", "|">>, i) THEN NoMatch
    ELSE name_match(s, i, i + 6,
                    name_end(s, i + 6, RunEnd(s, i + 6, LinkNameChars), 0),
                    <<"u", "r", "l">>)

\* link_element_regex, line 19
LinkTemplates == <<<<"f", "i", "l", "e">>, <<"p", "a", "g", "e">>, <<"o",
        "r", "c", "i", "d">>, <<"p", "l", "o", "t", "l", "y">>>>

link_named(s, i, kind) ==
    name_match(s, i, i + 3 + Len(kind),
               name_end(s, i + 3 + Len(kind),
                        RunEnd(s, i + 3 + Len(kind), LinkNameChars), 0),
               kind)

link_template(s, i, ks) ==
    IF ks = {} THEN NoMatch ELSE link_named(s, i, LinkTemplates[FirstOf(ks)])

link_element_at(s, i) ==
    IF ~StartsWithAt(s, <<"[", "[">>, i) THEN NoMatch
    ELSE link_template(s, i,
             {k \in 1..4 : StartsWithAt(s, LinkTemplates[k] \o <<"|">>,
                     i + 2)})

\* The position after the whitespace that starts at p (the pattern \s*).
SkipSpace(s, p) == RunEnd(s, p, Whitespace) + 1

\* [^\]]*\]\]  from p: the position after the match, 0 when there is none.
bracket_close(s, q) ==
    IF q > 0 /\ StartsWithAt(s, <<"]", "]">>, q) THEN q + 2 ELSE 0

unbracketed_end(s, p) == bracket_close(s, IndexFrom(s, "]", p))

\* \[\[(?:start|end)_(?:cell|block)[^\]]*\]\]  at w: the position after it
wrapped_type_end(s, p) ==
    IF StartsWithAt(s, <<"c", "e", "l", "l">>, p) THEN unbracketed_end(s,
            p + 4)
    ELSE IF StartsWithAt(s, <<"b", "l", "o", "c", "k">>,
            p) THEN unbracketed_end(s, p + 5)
    ELSE 0

wrapped_tag_end(s, w) ==
    IF StartsWithAt(s, <<"[", "[", "s", "t", "a", "r", "t", "_">>,
            w) THEN wrapped_type_end(s, w + 8)
    ELSE IF StartsWithAt(s, <<"[", "[", "e", "n", "d", "_">>,
            w) THEN wrapped_type_end(s, w + 6)
    ELSE 0

\* <p>\s*(tag)\s*</p>, line 235
paragraph_closed(s, i, w, t, v) ==
    IF StartsWithAt(s, <<"<", "/", "p", ">">>, v)
    THEN [end |-> v + 4, start |-> i, repl |-> SubSeq(s, w, t - 1)]
    ELSE NoMatch

paragraph_tag(s, i, w, t) ==
    IF t = 0 THEN NoMatch ELSE paragraph_closed(s, i, w, t, SkipSpace(s, t))

paragraph_from(s, i, w) == paragraph_tag(s, i, w, wrapped_tag_end(s, w))

wrapped_tag_at(s, i) ==
    IF StartsWithAt(s, <<"<", "p", ">">>, i) THEN paragraph_from(s, i,
            SkipSpace(s, i + 3))
    ELSE NoMatch

\* <p>\s*</p>, line 237
empty_closed(s, i, w) ==
    IF StartsWithAt(s, <<"<", "/", "p", ">">>, w)
    THEN [end |-> w + 4, start |-> i, repl |-> <<>>]
    ELSE NoMatch

empty_paragraph_at(s, i) ==
    IF StartsWithAt(s, <<"<", "p", ">">>, i) THEN empty_closed(s, i,
            SkipSpace(s, i + 3))
    ELSE NoMatch

\* \[\[(?:CELL_(?:START|END)|start|end)_[^\]]*\]\]  at i: the position after it
marker_end(s, i) ==
    IF StartsWithAt(s, <<"[", "[", "C", "E", "L", "L", "_", "S", "T", "A",
            "R", "T", "_">>, i) THEN unbracketed_end(s, i + 13)
    ELSE IF StartsWithAt(s, <<"[", "[", "C", "E", "L", "L", "_", "E", "N",
            "D", "_">>, i) THEN unbracketed_end(s, i + 11)
    ELSE IF StartsWithAt(s, <<"[", "[", "s", "t", "a", "r", "t", "_">>,
            i) THEN unbracketed_end(s, i + 8)
    ELSE IF StartsWithAt(s, <<"[", "[", "e", "n", "d", "_">>,
            i) THEN unbracketed_end(s, i + 6)
    ELSE 0

\* <br\s*/?>  at p: the position after it, 0 when there is none
break_slash(s, p) ==
    IF StartsWithAt(s, <<"/", ">">>, p) THEN p + 2
    ELSE IF StartsWithAt(s, <<">">>, p) THEN p + 1 ELSE 0

break_end(s, p) ==
    IF StartsWithAt(s, <<"<", "b", "r">>, p) THEN break_slash(s, SkipSpace(s,
            p + 3))
    ELSE 0

\* (marker)\s*<br\s*/?>, line 239
marker_break(s, i, t, e) ==
    IF e = 0 THEN NoMatch
    ELSE [end |-> e, start |-> i, repl |-> SubSeq(s, i, t - 1)]

marker_then(s, i, t) ==
    IF t = 0 THEN NoMatch
    ELSE marker_break(s, i, t, break_end(s, SkipSpace(s, t)))

break_after_at(s, i) == marker_then(s, i, marker_end(s, i))

\* <br\s*/?>\s*(marker), line 240
break_marker(s, i, w, t) ==
    IF t = 0 THEN NoMatch
    ELSE [end |-> t, start |-> i, repl |-> SubSeq(s, w, t - 1)]

break_then(s, i, w) == break_marker(s, i, w, marker_end(s, w))

break_from(s, i, b) ==
    IF b = 0 THEN NoMatch ELSE break_then(s, i, SkipSpace(s, b))

break_before_at(s, i) == break_from(s, i, break_end(s, i))

\* re.sub(r'<[^>]+>', '', code_content), line 419
html_tag_close(i, g) ==
    IF g > i + 1 THEN [end |-> g + 1, start |-> i, repl |-> <<>>] ELSE NoMatch

html_tag_at(s, i) ==
    IF s[i] = "<" THEN html_tag_close(i, IndexFrom(s, ">",
            i + 1)) ELSE NoMatch

\* The pattern of line 174 at position i of the text before the end tag:
\* [[BLOCK_OPTIONS:anchor:collapsible:back_to_top]] with no other marker
\* after it on its line.
last_on_line(s, e) ==
    \A q \in e..Len(s) :
        StartsWithAt(s, <<"[", "[", "B", "L", "O", "C", "K", "_", "O", "P",
                "T", "I", "O", "N", "S">>, q) =>
            \E k \in e..(q - 1) : IsLineBreak(s[k])

options_closed(s, i, c1, c2, b) ==
    IF b > c2 + 1 /\ StartsWithAt(s, <<"]", "]">>, b) /\ last_on_line(s,
            b + 2)
    THEN [end |-> b + 2, start |-> i,
          anchor |-> SubSeq(s, i + 16, c1 - 1),
          collapsible |-> SubSeq(s, c1 + 1, c2 - 1) = <<"T", "r", "u", "e">>,
          back_to_top |-> SubSeq(s, c2 + 1, b - 1) = <<"T", "r", "u", "e">>]
    ELSE NoMatch

options_third(s, i, c1, c2) ==
    IF c2 > c1 + 1 THEN options_closed(s, i, c1, c2, IndexFrom(s, "]",
            c2 + 1))
    ELSE NoMatch

options_second(s, i, c1) ==
    IF c1 > i + 16 THEN options_third(s, i, c1, IndexFrom(s, ":", c1 + 1))
    ELSE NoMatch

options_at(s, i) ==
    IF StartsWithAt(s, <<"[", "[", "B", "L", "O", "C", "K", "_", "O", "P",
            "T", "I", "O", "N", "S", ":">>, i)
    THEN options_second(s, i, IndexFrom(s, ":", i + 16))
    ELSE NoMatch

\* The patterns of this class, matched at position i of s
pattern_at(pattern, s, i) ==
    CASE pattern = "container" -> container_at(s, i)
      [] pattern = "code_start" -> code_start_at(s, i)
      [] pattern = "ui_element" -> ui_element_at(s, i)
      [] pattern = "url_element" -> url_element_at(s, i)
      [] pattern = "link_element" -> link_element_at(s, i)
      [] pattern = "options" -> options_at(s, i)
      [] pattern = "wrapped_tag" -> wrapped_tag_at(s, i)
      [] pattern = "empty_paragraph" -> empty_paragraph_at(s, i)
      [] pattern = "break_after" -> break_after_at(s, i)
      [] pattern = "break_before" -> break_before_at(s, i)
      [] pattern = "html_tag" -> html_tag_at(s, i)

\* re.search(pattern, s[from - 1:]): the leftmost match, NoMatch when there
\* is none.
search_at(s, i, pattern) == IF i = 0 THEN NoMatch ELSE pattern_at(pattern, s,
        i)

search_from(s, from, pattern) ==
    search_at(s, FirstOf({i \in from..Len(s) : pattern_at(pattern, s,
            i).end > 0}),
              pattern)

\* re.finditer(self.container_regex, s): the matches that do not overlap,
\* left to right.
RECURSIVE finditer_from(_, _)
finditer_next(s, match) ==
    IF match.end = 0 THEN <<>>
    ELSE <<match>> \o finditer_from(s, match.end)

finditer_from(s, from) == finditer_next(s, search_from(s, from, "container"))

\* re.sub(pattern, repl, s): the matches that do not overlap are replaced,
\* left to right.
RECURSIVE re_sub_from(_, _, _)
re_sub_next(s, from, match, pattern) ==
    IF match.end = 0 THEN SubSeq(s, from, Len(s))
    ELSE SubSeq(s, from, match.start - 1) \o match.repl
             \o re_sub_from(s, match.end, pattern)

re_sub_from(s, from, pattern) ==
    re_sub_next(s, from, search_from(s, from, pattern), pattern)

re_sub(s, pattern) == re_sub_from(s, 1, pattern)

\* TextPreRenderer.check_tags_integrity, lines 81-97
tag_count(matches, type, action) ==
    Cardinality({k \in 1..Len(matches) :
                    matches[k].type = type /\ matches[k].action = action})

tags_balanced(matches) ==
    \A type \in {"block", "cell"} :
        tag_count(matches, type, "start") = tag_count(matches, type, "end")

check_tags_integrity(s) == tags_balanced(finditer_from(s, 1))

\* TextPreRenderer._clean_template_tag_wrappers, lines 232-241
_clean_template_tag_wrappers(s) ==
    re_sub(re_sub(re_sub(re_sub(s, "wrapped_tag"), "empty_paragraph"),
                  "break_after"),
           "break_before")

\* value.lower() in ['true', '1', 'yes']
IsTrue(value) == str_lower(value) \in {<<"t", "r", "u", "e">>, <<"1">>,
        <<"y", "e", "s">>}

\* The options before any pair is read, lines 48-52; titled tells a title
\* that is a string from None.
NoOptions ==
    [titled |-> FALSE, title |-> <<>>, collapsible |-> FALSE,
     back_to_top |-> FALSE]

\* One key=value pair, lines 65-74
set_option(options, key, value) ==
    IF key = <<"t", "i", "t", "l",
            "e">> THEN [options EXCEPT !.titled = TRUE, !.title = value]
    ELSE IF key \in {<<"c", "o", "l", "l", "a", "p", "s", "i", "b", "l",
            "e">>, <<"c", "o", "l", "l", "a", "p", "s", "a", "b", "l", "e">>}
    THEN [options EXCEPT !.collapsible = IsTrue(value)]
    ELSE IF key = <<"b", "a", "c", "k", "_", "t", "o", "_", "t", "o", "p">>
    THEN [options EXCEPT !.back_to_top = IsTrue(value)]
    ELSE options

split_pair(options, kv) ==
    set_option(options, str_lower(strip(kv[1])), strip(kv[2]))

read_pair(options, pair) ==
    IF HasChar(pair, "=") THEN split_pair(options, split_first(pair, "="))
    ELSE options

\* The loop over the pairs, lines 62-74
RECURSIVE read_pairs(_, _)
read_pairs(options, pairs) ==
    IF pairs = <<>> THEN options
    ELSE read_pairs(read_pair(options, strip(Head(pairs))), Tail(pairs))

\* TextPreRenderer._parse_block_options, lines 37-79
_parse_block_options(param_string) ==
    IF param_string = <<>> THEN NoOptions
    ELSE IF HasChar(param_string, ",")
            \/ (HasChar(param_string, "=") /\ ~HasChar(param_string, ":"))
    THEN read_pairs(NoOptions, str_split(param_string, ","))
    ELSE [NoOptions EXCEPT !.titled = TRUE, !.title = param_string]

\* TextPreRenderer._parse_cell_width, lines 295-313, width the stripped
\* parameter
cell_width(width) ==
    IF StartsWithAt(width, <<"c", "o", "l", "-">>, 1)
    THEN <<"c", "l", "a", "s", "s", "=", "\"", "c", "e", "l", "l", "-", "b",
            "l", "o", "c", "k", " ">> \o str_replace(width, <<",">>,
            <<" ">>) \o <<"\"">>
    ELSE <<"c", "l", "a", "s", "s", "=", "\"", "c", "e", "l", "l", "-", "b",
            "l", "o", "c", "k", "\"", " ", "s", "t", "y", "l", "e", "=",
            "\"", "f", "l", "e", "x", ":", " ", "0", " ", "0", " ">> \o width
             \o <<";", " ", "m", "i", "n", "-", "w", "i", "d", "t", "h", ":",
                     " ", "0", ";", "\"">>

_parse_cell_width(width_param) == cell_width(strip(width_param))

\* The attribute of a cell without a width, line 214
CELL_DEFAULT == <<"c", "l", "a", "s", "s", "=", "\"", "c", "e", "l", "l",
        "-", "b", "l", "o", "c", "k", "\"", " ", "s", "t", "y", "l", "e",
        "=", "\"", "f", "l", "e", "x", ":", " ", "1", ";", " ", "m", "i",
        "n", "-", "w", "i", "d", "t", "h", ":", " ", "0", ";", "\"">>

\* re.sub(r'[^a-z0-9]+', '-', title).strip('-'), line 125
SlugChars == {Lowers[i] : i \in 1..26} \cup DigitChars

RECURSIVE slug_from(_, _, _)
slug_from(s, i, dashed) ==
    IF i > Len(s) THEN <<>>
    ELSE IF s[i] \in SlugChars THEN <<s[i]>> \o slug_from(s, i + 1, FALSE)
    ELSE IF dashed THEN slug_from(s, i + 1, TRUE)
    ELSE <<"-">> \o slug_from(s, i + 1, TRUE)

RECURSIVE strip_dashes(_)
strip_dashes(s) ==
    IF s # <<>> /\ Head(s) = "-" THEN strip_dashes(Tail(s))
    ELSE IF s # <<>> /\ s[Len(s)] = "-"
    THEN strip_dashes(SubSeq(s, 1, Len(s) - 1))
    ELSE s

\* The anchor id of a block, lines 124-128
anchor_id(counter, options) ==
    IF options.title # <<>>
    THEN <<"b", "l", "o", "c", "k", "-">> \o IntToStr(counter) \o <<"-">>
             \o strip_dashes(slug_from(str_lower(options.title), 1, FALSE))
    ELSE <<"b", "l", "o", "c", "k", "-">> \o IntToStr(counter)

\* The markup of a block, lines 132-161 and 196-202
CARD_OPEN == "<div class=\"card mb-2 box-shadow\" id=\""

TAG_CLOSE == "\">"

CARD_HEADER == "<div class=\"card-header d-flex justify-content-between align-items-center\">"

TITLE_OPEN == "<h3 class=\"card-title mb-0\">"

TITLE_CLOSE == "</h3>"

COLLAPSE_OPEN == "<div class=\"collapse show\" id=\""

CARD_BODY == "<div class=\"card-body d-flex flex-column\">"

DIV_CLOSE == "</div>"

\* str(True), str(False)
BoolText(b) == IF b THEN <<"T", "r", "u", "e">> ELSE <<"F", "a", "l", "s",
        "e">>

\* collapse_id, lines 140 and 158
collapse_id(anchor) == <<"c", "o", "l", "l", "a", "p", "s", "e",
        "-">> \o anchor

\* The card header, lines 135-154
card_header(anchor, options) ==
    IF options.collapsible
    THEN <<CARD_HEADER, COLLAPSE_HEADER_OPEN>> \o options.title
             \o <<COLLAPSE_HEADER_BUTTON>> \o collapse_id(anchor)
             \o <<COLLAPSE_HEADER_CONTROLS>> \o collapse_id(anchor)
             \o <<COLLAPSE_HEADER_CLOSE, DIV_CLOSE>>
    ELSE IF options.title # <<>>
    THEN <<CARD_HEADER, TITLE_OPEN>> \o options.title
             \o <<TITLE_CLOSE, DIV_CLOSE>>
    ELSE <<>>

\* The marker that hands the options to the end tag, lines 165-166
options_marker(anchor, options) ==
    IF options.collapsible \/ options.back_to_top
    THEN <<"[", "[", "B", "L", "O", "C", "K", "_", "O", "P", "T", "I", "O",
            "N", "S",
            ":">> \o anchor \o <<":">> \o BoolText(options.collapsible)
             \o <<":">> \o BoolText(options.back_to_top) \o <<"]", "]">>
    ELSE <<>>

\* The replacement of a start_block tag, lines 130-168
block_start(anchor, options) ==
    <<CARD_OPEN>> \o anchor \o <<TAG_CLOSE>> \o card_header(anchor, options)
        \o (IF options.collapsible
            THEN <<COLLAPSE_OPEN>> \o collapse_id(anchor) \o <<TAG_CLOSE>>
            ELSE <<>>)
        \o <<CARD_BODY>> \o options_marker(anchor, options)

\* The replacement of an end_block tag, lines 176-203
block_end(options_match) ==
    (IF options_match.end > 0 /\ options_match.back_to_top
     THEN <<BACK_TO_TOP>> ELSE <<>>)
        \o <<DIV_CLOSE>>
        \o (IF options_match.end > 0 /\ options_match.collapsible
            THEN <<DIV_CLOSE>> ELSE <<>>)
        \o <<DIV_CLOSE>>

\* rendered_text.replace(options_match.group(0), '', 1), line 194
without_marker(s, options_match) ==
    IF options_match.end = 0 THEN s
    ELSE replace_first(s, SubSeq(s, options_match.start,
                                 options_match.end - 1), <<>>)

\* The replacement of a cell tag, lines 205-216
cell_marker(match) ==
    IF match.action = "end" THEN <<"[", "[", "C", "E", "L", "L", "_", "E",
            "N", "D", "]", "]">>
    ELSE IF match.param # <<>>
    THEN <<"[", "[", "C", "E", "L", "L", "_", "S", "T", "A", "R", "T",
            ":">> \o _parse_cell_width(match.param) \o <<"]", "]">>
    ELSE <<"[", "[", "C", "E", "L", "L", "_", "S", "T", "A", "R", "T",
            ":">> \o CELL_DEFAULT \o <<"]", "]">>

\* One pass of the loop of create_containers, lines 112-218: the text after
\* rendered_text.replace(full_match, replacement, 1)
end_block_rewrite(s, full_match, options_match) ==
    replace_first(without_marker(s, options_match), full_match,
                  block_end(options_match))

container_rewrite(s, match, full_match, counter) ==
    IF match.type = "cell" THEN replace_first(s, full_match,
            cell_marker(match))
    ELSE IF match.action = "start"
    THEN replace_first(s, full_match,
                       block_start(anchor_id(counter + 1,
                                             _parse_block_options(match.param)),
                                   _parse_block_options(match.param)))
    ELSE end_block_rewrite(s, full_match,
                           search_from(SubSeq(s, 1, match.start - 1), 1,
                                       "options"))

\* self.block_titles after the pass, line 126
titles_after(titles, match, counter) ==
    IF match.type = "block" /\ match.action = "start"
          /\ _parse_block_options(match.param).title # <<>>
    THEN Append(titles,
                [title |-> _parse_block_options(match.param).title,
                 anchor |-> anchor_id(counter + 1,
                                      _parse_block_options(match.param))])
    ELSE titles

\* The local options after the pass, line 121
options_after(before, match) ==
    IF match.type = "block" /\ match.action = "start"
    THEN _parse_block_options(match.param)
    ELSE before

\* block_counter after the pass, line 120
counter_after(counter, match) ==
    IF match.type = "block" /\ match.action = "start" THEN counter + 1
    ELSE counter

\* The cell that starts at position p of s (the pattern of line 271), and the
\* position after it; NoMatch when there is none.
cell_closed(s, p, b, c) ==
    IF c = 0 THEN NoMatch
    ELSE [end |-> c + 12, start |-> p, attr |-> SubSeq(s, p + 13, b - 1),
          content |-> SubSeq(s, b + 2, c - 1)]

cell_attr(s, p, b) ==
    IF b > p + 13 /\ StartsWithAt(s, <<"]", "]">>, b)
    THEN cell_closed(s, p, b, Find(s, <<"[", "[", "C", "E", "L", "L", "_",
            "E", "N", "D", "]", "]">>, b + 2))
    ELSE NoMatch

cell_at(s, p) ==
    IF StartsWithAt(s, <<"[", "[", "C", "E", "L", "L", "_", "S", "T", "A",
            "R", "T", ":">>, p)
    THEN cell_attr(s, p, IndexFrom(s, "]", p + 13))
    ELSE NoMatch

\* The div of a cell, line 276
cell_div(cell) == <<"<", "d", "i", "v",
        " ">> \o cell.attr \o <<">">> \o cell.content \o <<"<", "/", "d",
        "i", "v", ">">>

\* The loop of lines 270-285 from position p (counted from 1): the divs of
\* the cells it collects and the position it ends at.
RECURSIVE collect_cells(_, _, _)
next_cell(s, cells, e, n) ==
    IF StartsWithAt(s, <<"[", "[", "C", "E", "L", "L", "_", "S", "T", "A",
            "R", "T", ":">>, n) THEN collect_cells(s, n, cells)
    ELSE [cells |-> cells, pos |-> e]

collected(s, p, cells, cell) ==
    IF cell.end = 0 THEN [cells |-> cells, pos |-> p]
    ELSE next_cell(s, cells \o cell_div(cell), cell.end, SkipSpace(s,
            cell.end))

collect_cells(s, p, cells) == collected(s, p, cells, cell_at(s, p))

ROW_OPEN == "<div class=\"cell-row\" style=\"display: flex; gap: 1rem; align-items: flex-start; flex-wrap: wrap;\">"

\* The parts of a pass that leaves the row wrapper out
row_parts_unwrapped(before, row) ==
    IF row.cells = <<>> THEN <<before>> ELSE <<before, row.cells>>

\* The parts one pass of the loop of _wrap_cells_in_rows adds, lines 264-291
row_parts(before, row) ==
    IF row.cells = <<>> THEN <<before>>
    ELSE <<before, <<ROW_OPEN>>, row.cells, <<DIV_CLOSE>>>>

\* create_toc, lines 369-392
TOC_OPEN == "<div class=\"card mb-3 toc-container\"><div class=\"card-body\"><h4 class=\"card-title\">Table of Contents</h4><ul class=\"list-unstyled\">"

TOC_ITEM_OPEN == "<li><a href=\"#"

TOC_ITEM_CLOSE == "</a></li>"

TOC_CLOSE == "</ul></div></div>"

RECURSIVE toc_items(_)
toc_items(titles) ==
    IF titles = <<>> THEN <<>>
    ELSE <<TOC_ITEM_OPEN>> \o Head(titles).anchor \o <<TAG_CLOSE>>
             \o Head(titles).title \o <<TOC_ITEM_CLOSE>>
             \o toc_items(Tail(titles))

toc_html(titles) ==
    IF titles = <<>> THEN <<>>
    ELSE <<TOC_OPEN>> \o toc_items(titles) \o <<TOC_CLOSE>>

\* create_toc with the link of the first title only
create_toc_first_title(s, titles) ==
    replace_all(s, TOC,
                toc_html(IF titles = <<>> THEN <<>> ELSE <<Head(titles)>>))

create_toc(s, titles) == replace_all(s, TOC, toc_html(titles))

\* The token of a match of the element, url and link patterns
token_text(match) == <<"[",
        "[">> \o match.template \o <<"|">> \o match.name \o <<"]", "]">>

\* render_ui_element, lines 458-513.  What render_to_string gives for an
\* element of the database is part of the database.
ELEMENT_NOT_FOUND == "<span class='text-danger'>UI Element not found: "

SPAN_CLOSE == "</span>"

element_html(base, name) ==
    IF name \in DOMAIN base.elements THEN base.elements[name]
    ELSE <<ELEMENT_NOT_FOUND>> \o name \o <<SPAN_CLOSE>>

render_ui_element(base, match, s) ==
    replace_all(s, token_text(match), element_html(base, match.name))

\* The loop body of create_urls, lines 354-361
page_url(base, name) ==
    IF name \in DOMAIN base.pages THEN base.pages[name]
    ELSE <<"#", "p", "a", "g", "e", "-", "n", "o", "t", "-", "f", "o", "u",
            "n", "d", "-">> \o name

render_url(base, match, s) ==
    replace_all(s, token_text(match), page_url(base, match.name))

\* ^\d{4}-\d{4}-\d{4}-\d{3}[0-9X]$, line 538
IsOrcid(id) ==
    /\ Len(id) = 19
    /\ \A k \in {5, 10, 15} : id[k] = "-"
    /\ \A k \in (1..18) \ {5, 10, 15} : id[k] \in DigitChars
    /\ id[19] \in DigitChars \cup {"X"}

INVALID_ORCID == "<span class='text-danger'>Invalid ORCID: "

PLOTLY_NOT_FOUND == "<span class='text-danger'>Plotly file not found: "

\* What render_to_string gives for the template of a file or a page, and what
\* the PlotlyFilter gives for an upload.
RENDERED_LINK == "<rendered link>"

RENDERED_PLOT == "<rendered plot>"

\* render_element without the test of the ORCID pattern
link_html_unvalidated(base, kind, id) ==
    IF kind = <<"o", "r", "c", "i", "d">>
    THEN <<ORCID_OPEN>> \o id \o <<ORCID_IMAGE>> \o id \o <<ORCID_CLOSE>>
    ELSE IF kind = <<"p", "l", "o", "t", "l", "y">>
    THEN IF id \in base.uploads THEN <<RENDERED_PLOT>>
         ELSE <<PLOTLY_NOT_FOUND>> \o id \o <<SPAN_CLOSE>>
    ELSE <<RENDERED_LINK>>

\* render_element, lines 534-599
link_html(base, kind, id) ==
    IF kind = <<"o", "r", "c", "i", "d">>
    THEN IF IsOrcid(id) THEN <<ORCID_OPEN>> \o id \o <<ORCID_IMAGE>> \o id
                                 \o <<ORCID_CLOSE>>
         ELSE <<INVALID_ORCID>> \o id \o <<SPAN_CLOSE>>
    ELSE IF kind = <<"p", "l", "o", "t", "l", "y">>
    THEN IF id \in base.uploads THEN <<RENDERED_PLOT>>
         ELSE <<PLOTLY_NOT_FOUND>> \o id \o <<SPAN_CLOSE>>
    ELSE <<RENDERED_LINK>>

render_element(base, match, s) ==
    replace_all(s, token_text(match),
                link_html(base, match.template, match.name))

\* The loop body of create_code_blocks, lines 403-447.
\* The language of a code block, lines 403 and 443
code_language(match) ==
    str_lower(IF match.language = <<>> THEN <<"t", "e", "x",
            "t">> ELSE match.language)

\* Lines 419-440; the pretty-printing of the language json is not modelled,
\* the texts of the model have no code block of that language.
code_content(s) == html_escape(strip(html_unescape(re_sub(s, "html_tag"))))

code_html(language, content) ==
    <<"<", "p", "r", "e", " ", "c", "l", "a", "s", "s", "=", "\"", "c", "o",
            "d", "e", "-", "b", "l", "o", "c", "k", "\"", ">", "<", "c", "o",
            "d", "e", " ", "c", "l", "a", "s", "s", "=", "\"", "l", "a", "n",
            "g", "u", "a", "g", "e", "-">> \o language \o <<"\"", ">">>
        \o content \o <<"<", "/", "c", "o", "d", "e", ">", "<", "/", "p",
                "r", "e", ">">>

\* The position of the end tag of the block that starts with start_match; 0
\* when there is none (line 407).
code_end_position(s, start_match) ==
    IF start_match.end = 0 THEN 0 ELSE Find(s, CODE_END, start_match.end)

\* rendered_text.replace(full_block, code_html, 1), lines 415-447
code_rewrite(s, start_match, e) ==
    replace_first(s, SubSeq(s, start_match.start, e + Len(CODE_END) - 1),
                  code_html(code_language(start_match),
                            code_content(SubSeq(s, start_match.end, e - 1))))

\* ---------------------------------------------------------------------------
\* The texts and databases a TextPreRenderer is constructed with
\* ---------------------------------------------------------------------------

\* TextPreRenderer.MAX_ITERATIONS, line 17, and the literal of line 222
MAX_ITERATIONS == 50

CONTAINER_LIMIT == 50

MaxMarkupParts == 2

MaxResultParts == 9

MarkupParts ==
    {<<"[", "[", "s", "t", "a", "r", "t", "_", "b", "l", "o", "c", "k", "]",
            "]">>, <<"[", "[", "e", "n", "d", "_", "b", "l", "o", "c", "k",
            "]", "]">>, <<"[", "[", "s", "t", "a", "r", "t", "_", "b", "l",
            "o", "c", "k", "=", "T", "]", "]">>,
     <<"[", "[", "s", "t", "a", "r", "t", "_", "b", "l", "o", "c", "k", ":",
             "c", "o", "l", "l", "a", "p", "s", "i", "b", "l", "e", "=", "1",
             ",", "b", "a", "c", "k", "_", "t", "o", "_", "t", "o", "p", "=",
             "1", "]", "]">>,
     <<"[", "[", "s", "t", "a", "r", "t", "_", "c", "e", "l", "l", "]",
             "]">>, <<"[", "[", "e", "n", "d", "_", "c", "e", "l", "l", "]",
             "]">>, <<"[", "[", "s", "t", "a", "r", "t", "_", "c", "e", "l",
             "l", "=", "4", "0", "%", "]", "]">>,
     <<"[", "[", "s", "t", "a", "r", "t", "_", "c", "o", "d", "e", "]",
             "]">>, <<"[", "[", "e", "n", "d", "_", "c", "o", "d", "e", "]",
             "]">>, <<"[", "[", "t", "o", "c", "]", "]">>, <<"[", "[", "e",
             "l", "e", "m", "e", "n", "t", "|", "e", "]", "]">>,
     <<"[", "[", "u", "r", "l", "|", "p", "]", "]">>, <<"[", "[", "p", "a",
             "g", "e", "|", "p", "]", "]">>, <<"[", "[", "o", "r", "c", "i",
             "d", "|", "0", "]", "]">>,
     <<"<", "p", ">">>, <<"<", "/", "p", ">">>, <<"<", "b", "r", ">">>,
             <<"x">>, <<" ">>}

\* A table of contents in front of three blocks, two of them with a title.
TocExample ==
    <<"[", "[", "t", "o", "c", "]", "]", "[", "[", "s", "t", "a", "r", "t",
            "_", "b", "l", "o", "c", "k", "=", "B", "]", "]", "x", "[", "[",
            "e", "n", "d", "_", "b", "l", "o", "c", "k", "]", "]", "[", "[",
            "s", "t", "a", "r", "t", "_", "b", "l", "o", "c", "k", "]", "]",
            "[", "[", "e", "n", "d", "_", "b", "l", "o", "c", "k", "]", "]",
            "[", "[", "s", "t", "a", "r", "t", "_", "b", "l", "o", "c", "k",
            ":", "t", "i", "t", "l", "e", "=", "M", "y", " ", "T", "i", "t",
            "l", "e", ",", "c", "o", "l", "l", "a", "p", "s", "i", "b", "l",
            "e", "=", "t", "r", "u", "e", "]", "]", "[", "[", "e", "n", "d",
            "_", "b", "l", "o", "c", "k", "]", "]">>

\* Two cells with white space between them, a text and a third cell.
CellsExample ==
    <<"[", "[", "s", "t", "a", "r", "t", "_", "c", "e", "l", "l", "=", "c",
            "o", "l", "-", "4", ",", "c", "o", "l", "-", "s", "m", "-", "1",
            "2", "]", "]", "x", "[", "[", "e", "n", "d", "_", "c", "e", "l",
            "l", "]", "]", " ", "[", "[", "s", "t", "a", "r", "t", "_", "c",
            "e", "l", "l", "]", "]", "y", "[", "[", "e", "n", "d", "_", "c",
            "e", "l", "l", "]", "]", "z", "[", "[", "s", "t", "a", "r", "t",
            "_", "c", "e", "l", "l", "=", " ", "4", "0", "%", " ", "]", "]",
            "[", "[", "e", "n", "d", "_", "c", "e", "l", "l", "]", "]">>

\* Blocks with the parameters of the docstring of _parse_block_options, and
\* one with a title that holds an equals sign.
BlockExamples ==
    {<<"[", "[", "s", "t", "a", "r", "t", "_", "b", "l", "o", "c", "k", "=",
            "T", "i", "t", "l", "e", "]", "]", "x", "[", "[", "e", "n", "d",
            "_", "b", "l", "o", "c", "k", "]", "]">>,
     <<"[", "[", "s", "t", "a", "r", "t", "_", "b", "l", "o", "c", "k", ":",
             "c", "o", "l", "l", "a", "p", "s", "i", "b", "l", "e", "=", "t",
             "r", "u", "e", ",", "b", "a", "c", "k", "_", "t", "o", "_", "t",
             "o", "p", "=", "t", "r", "u", "e", "]", "]", "x", "[", "[", "e",
             "n", "d", "_", "b", "l", "o", "c", "k", "]", "]">>,
     <<"[", "[", "s", "t", "a", "r", "t", "_", "b", "l", "o", "c", "k", "=",
             "T", "i", "t", "l", "e", ":", "c", "o", "l", "l", "a", "p", "s",
             "i", "b", "l", "e", "=", "t", "r", "u", "e", "]", "]", "x", "[",
             "[", "e", "n", "d", "_", "b", "l", "o", "c", "k", "]", "]">>,
     <<"[", "[", "s", "t", "a", "r", "t", "_", "b", "l", "o", "c", "k", ":",
             "t", "i", "t", "l", "e", "=", "M", "y", " ", "T", "i", "t", "l",
             "e", ",", "c", "o", "l", "l", "a", "p", "s", "i", "b", "l", "e",
             "=", "t", "r", "u", "e", "]", "]", "x", "[", "[", "e", "n", "d",
             "_", "b", "l", "o", "c", "k", "]", "]">>,
     <<"[", "[", "s", "t", "a", "r", "t", "_", "b", "l", "o", "c", "k", "=",
             "E", "=", "m", "c", "2", "]", "]", "x", "[", "[", "e", "n", "d",
             "_", "b", "l", "o", "c", "k", "]", "]">>}

\* A block with options around a block without options.
OptionsAroundPlain ==
    <<"[", "[", "s", "t", "a", "r", "t", "_", "b", "l", "o", "c", "k", ":",
            "c", "o", "l", "l", "a", "p", "s", "i", "b", "l", "e", "=", "t",
            "r", "u", "e", "]", "]", "[", "[", "s", "t", "a", "r", "t", "_",
            "b", "l", "o", "c", "k", "]", "]", "x", "[", "[", "e", "n", "d",
            "_", "b", "l", "o", "c", "k", "]", "]", "y", "[", "[", "e", "n",
            "d", "_", "b", "l", "o", "c", "k", "]", "]">>

\* Longer texts: wrapped and nested containers, cells in a row, a code block
\* with markup in it.
MarkupExamples ==
    {TocExample,
     <<"<", "p", ">", "[", "[", "s", "t", "a", "r", "t", "_", "b", "l", "o",
             "c", "k", "]", "]", "<", "/", "p", ">", "x", "<", "p", ">", " ",
             "[", "[", "e", "n", "d", "_", "b", "l", "o", "c", "k", "]", "]",
             " ", "<", "/", "p", ">">>,
     <<"[", "[", "s", "t", "a", "r", "t", "_", "b", "l", "o", "c", "k", "=",
             "A", "]", "]", "[", "[", "s", "t", "a", "r", "t", "_", "b", "l",
             "o", "c", "k", ":", "c", "o", "l", "l", "a", "p", "s", "i", "b",
             "l", "e", "=", "1", "]", "]", "x", "[", "[", "e", "n", "d", "_",
             "b", "l", "o", "c", "k", "]", "]", "[", "[", "e", "n", "d", "_",
             "b", "l", "o", "c", "k", "]", "]", "[", "[", "t", "o", "c", "]",
             "]">>,
     <<"[", "[", "s", "t", "a", "r", "t", "_", "b", "l", "o", "c", "k", ":",
             "c", "o", "l", "l", "a", "p", "s", "i", "b", "l", "e", "=", "1",
             ",", "b", "a", "c", "k", "_", "t", "o", "_", "t", "o", "p", "=",
             "1", "]", "]", "[", "[", "s", "t", "a", "r", "t", "_", "b", "l",
             "o", "c", "k", ":", "c", "o", "l", "l", "a", "p", "s", "i", "b",
             "l", "e", "=", "1", "]", "]", "x", "[", "[", "e", "n", "d", "_",
             "b", "l", "o", "c", "k", "]", "]", "y", "[", "[", "e", "n", "d",
             "_", "b", "l", "o", "c", "k", "]", "]">>,
     CellsExample,
     OptionsAroundPlain,
     <<"[", "[", "s", "t", "a", "r", "t", "_", "c", "e", "l", "l", "]", "]",
             "[", "[", "s", "t", "a", "r", "t", "_", "c", "e", "l", "l", "]",
             "]", "x", "[", "[", "e", "n", "d", "_", "c", "e", "l", "l", "]",
             "]", "[", "[", "e", "n", "d", "_", "c", "e", "l", "l", "]",
             "]">>,
     <<"[", "[", "s", "t", "a", "r", "t", "_", "c", "o", "d", "e", "=", "X",
             "]", "]", "<", "p", ">", "a", " ", "&", "a", "m", "p", ";", " ",
             "b", "<", "/", "p", ">", " ", "[", "[", "s", "t", "a", "r", "t",
             "_", "c", "o", "d", "e", "]", "]", "[", "[", "e", "n", "d", "_",
             "c", "o", "d", "e", "]", "]", "x", "[", "[", "e", "n", "d", "_",
             "c", "o", "d", "e", "]", "]">>,
     <<"[", "[", "s", "t", "a", "r", "t", "_", "c", "o", "d", "e", "]", "]",
             "x", "[", "[", "e", "n", "d", "_", "c", "o", "d", "e", "]", "]",
             "[", "[", "s", "t", "a", "r", "t", "_", "b", "l", "o", "c", "k",
             "]", "]">>,
     <<"<", "b", "r", "/", ">", "[", "[", "s", "t", "a", "r", "t", "_", "b",
             "l", "o", "c", "k", "]", "]", "<", "b", "r", " ", ">", "[", "[",
             "e", "n", "d", "_", "b", "l", "o", "c", "k", "]", "]", "<", "b",
             "r", ">">>,
     <<"[", "[", "o", "r", "c", "i", "d", "|", "0", "0", "0", "0", "-", "0",
             "0", "0", "2", "-", "1", "8", "2", "5", "-", "0", "0", "9", "7",
             "]", "]", "[", "[", "f", "i", "l", "e", "|", "1", "]", "]", "[",
             "[", "p", "l", "o", "t", "l", "y", "|", "1", "]", "]", "[", "[",
             "u", "r", "l", "|", "]", "]">>}

\* Names that differ from each other and from the names of the database, one
\* character each.
NameChars == Uppers \o Digits \o SubSeq(Lowers, 6, 15) \o SubSeq(Lowers, 17,
        26)

\* n tokens after each other, the k-th made by token(k)
Token(pass, k) ==
    CASE pass = "code" -> <<"[", "[", "s", "t", "a", "r", "t", "_", "c", "o",
            "d", "e", "]", "]", "[", "[", "e", "n", "d", "_", "c", "o", "d",
            "e", "]", "]">>
      [] pass = "container" -> <<"[", "[", "s", "t", "a", "r", "t", "_", "b",
              "l", "o", "c", "k", "]", "]", "[", "[", "e", "n", "d", "_",
              "b", "l", "o", "c", "k", "]", "]">>
      [] pass = "ui" -> <<"[", "[", "e", "l", "e", "m", "e", "n", "t",
              "|">> \o <<NameChars[k]>> \o <<"]", "]">>
      [] pass = "urls" -> <<"[", "[", "u", "r", "l",
              "|">> \o <<NameChars[k]>> \o <<"]", "]">>
      [] pass = "links" -> <<"[", "[", "p", "a", "g", "e",
              "|">> \o <<NameChars[k]>> \o <<"]", "]">>
      [] pass = "nested_code" ->
             <<"[", "[", "s", "t", "a", "r", "t", "_", "c", "o", "d", "e",
                     "]", "]", "[", "[", "s", "t", "a", "r", "t", "_", "c",
                     "o", "d", "e", "]", "]", "[", "[", "e", "n", "d", "_",
                     "c", "o", "d", "e", "]", "]", "[", "[", "e", "n", "d",
                     "_", "c", "o", "d", "e", "]", "]">>

RECURSIVE Tokens(_, _)
Tokens(n, pass) ==
    IF n = 0 THEN <<>> ELSE Tokens(n - 1, pass) \o Token(pass, n)

\* The number of tokens of Token that take the loop of a pass to its ceiling
\* (a token of the container pass is a start and an end tag).
AtCeiling(pass) ==
    IF pass = "container" THEN CONTAINER_LIMIT \div 2 ELSE MAX_ITERATIONS

\* Code blocks with a start tag in their body, each taking two passes of the
\* loop: one more than the ceiling allows.
NestedCode == Tokens(MAX_ITERATIONS \div 2 + 1, "nested_code")

\* Texts that take a pass to its ceiling and one iteration past it.
MarkupAtCeiling ==
    UNION {{Tokens(AtCeiling(pass), pass), Tokens(AtCeiling(pass) + 1,
            pass)} :
              pass \in {"code", "container", "ui", "urls", "links"}}
        \cup {NestedCode}

Markups ==
    {Concat(ps) : ps \in UNION {[1..n -> MarkupParts] : n \in 0..MaxMarkupParts}}
        \cup MarkupExamples \cup BlockExamples \cup MarkupAtCeiling

\* What render_to_string gives for a UI element; the second one holds the
\* token of the element itself.
RENDERED_ELEMENT == "<rendered element>"

ElementHtmls == {<<RENDERED_ELEMENT>>, <<RENDERED_ELEMENT>> \o <<"[", "[",
        "e", "l", "e", "m", "e", "n", "t", "|", "e", "]", "]">>}

\* Two elements, each with the token of the other in what it renders to.
ElementCycle ==
    [n \in {<<"e">>, <<"f">>} |->
        IF n = <<"e">> THEN <<RENDERED_ELEMENT>> \o <<"[", "[", "e", "l",
                "e", "m", "e", "n", "t", "|", "f", "]", "]">>
        ELSE <<RENDERED_ELEMENT>> \o <<"[", "[", "e", "l", "e", "m", "e",
                "n", "t", "|", "e", "]", "]">>]

\* What NdrCorePage.url() gives
PageUrls == {<<"#">>, <<"/", "p", "/">>}

\* The databases that matter to a text: the element e and the page p are
\* there or not, the upload 1 is there or not.
ElementTables(t) ==
    {[n \in {} |-> <<>>]}
        \cup (IF Contains(t, <<"[", "[", "e", "l", "e", "m", "e", "n", "t",
                "|", "e", "]", "]">>)
              THEN {[n \in {<<"e">>} |-> h] : h \in ElementHtmls}
                       \cup {ElementCycle}
              ELSE {})

PageTables(t) ==
    {[n \in {} |-> <<>>]}
        \cup (IF Contains(t, <<"[", "[", "u", "r", "l", "|", "p", "]", "]">>)
              THEN {[n \in {<<"p">>} |-> u] : u \in PageUrls} ELSE {})

UploadSets(t) ==
    {{}} \cup (IF Contains(t, <<"[", "[", "p", "l", "o", "t", "l", "y", "|",
            "1", "]", "]">>) THEN {{<<"1">>}} ELSE {})

Databases(t) ==
    {[elements |-> e, pages |-> p, uploads |-> u] :
        e \in ElementTables(t), p \in PageTables(t), u \in UploadSets(t)}

\* ---------------------------------------------------------------------------
\* The passes of get_pre_rendered_text as steps
\* ---------------------------------------------------------------------------

\* What the renderer leaves alone.
outside_pre == <<template_vars, parse_vars, sanitize_vars, call_vars>>

\* raise PreRenderError(msg)
raise_error(msg) ==
    /\ pc' = "raised"
    /\ exc' = "PreRenderError"
    /\ message' = msg

\* The test of the ceiling with >= in the place of >: the error comes one pass
\* early.
count_iteration_at_limit(limit, msg) ==
    /\ security_breaker' = security_breaker + 1
    /\ IF security_breaker + 1 >= limit THEN raise_error(msg)
       ELSE UNCHANGED <<pc, exc, message>>

\* security_breaker += 1 and the test of the ceiling at the end of a pass of
\* a loop, lines 221-223, 328-330, 343-345, 364-366 and 452-454
count_iteration(limit, msg) ==
    /\ security_breaker' = security_breaker + 1
    /\ IF security_breaker + 1 > limit THEN raise_error(msg)
       ELSE UNCHANGED <<pc, exc, message>>

\* A pass returns and get_pre_rendered_text enters the next one: self.text is
\* assigned, the next pass reads it and sets its security_breaker to 0.
next_pass(t, label) ==
    /\ self_text' = t
    /\ rendered_text' = t
    /\ security_breaker' = 0
    /\ pc' = label

\* TextPreRenderer.__init__, lines 32-35
construct_renderer(t, base) ==
    /\ markup' = t
    /\ db' = base
    /\ self_text' = t
    /\ block_titles' = <<>>
    /\ pc' = "pre"

NewTextPreRenderer ==
    /\ pc = "new"
    /\ \E t \in Markups : \E base \in Databases(t) : construct_renderer(t,
            base)
    /\ UNCHANGED <<exc, rendered_text, security_breaker, block_counter,
            block_options, pos,
                   result, message, outside_pre>>

\* get_pre_rendered_text up to the loop of create_code_blocks, lines 621-629
\* and 396-400.  The text is a string; None is not a text of the model.
GetPreRenderedText ==
    /\ pc = "pre"
    /\ IF self_text = <<>>
       THEN pc' = "returned" /\ UNCHANGED <<rendered_text, security_breaker>>
       ELSE /\ rendered_text' = self_text
            /\ security_breaker' = 0
            /\ pc' = "code"
    /\ UNCHANGED <<exc, markup, db, self_text, block_titles, block_counter,
            block_options,
                   pos, result, message, outside_pre>>

\* A pass of the loop of create_code_blocks without the test of the ceiling
code_block_unchecked(start_match, e) ==
    /\ start_match.end > 0
    /\ e > 0
    /\ rendered_text' = code_rewrite(rendered_text, start_match, e)
    /\ security_breaker' = security_breaker + 1
    /\ UNCHANGED <<pc, exc, message>>

\* A pass of the loop of create_code_blocks, lines 402-454
code_block(start_match, e) ==
    /\ start_match.end > 0
    /\ e > 0
    /\ rendered_text' = code_rewrite(rendered_text, start_match, e)
    /\ count_iteration(MAX_ITERATIONS,
            "Too many code block rendering iterations.")

code_block_from(start_match) ==
    code_block(start_match, code_end_position(rendered_text, start_match))

CodeBlock ==
    /\ pc = "code"
    /\ code_block_from(search_from(rendered_text, 1, "code_start"))
    /\ UNCHANGED <<markup, db, self_text, block_titles, block_counter,
            block_options, pos,
                   result, outside_pre>>

\* create_code_blocks returns: no start tag is left, or the first one has no
\* end tag (line 410).
code_blocks_done(start_match) ==
    code_end_position(rendered_text, start_match) = 0

CodeBlocksReturn ==
    /\ pc = "code"
    /\ code_blocks_done(search_from(rendered_text, 1, "code_start"))
    /\ next_pass(rendered_text, "containers")
    /\ UNCHANGED <<exc, markup, db, block_titles, block_counter,
            block_options, pos, result,
                   message, outside_pre>>

\* create_containers up to its loop, lines 99-109 and 228-229
CreateContainers ==
    /\ pc = "containers"
    /\ IF check_tags_integrity(self_text)
       THEN /\ rendered_text' = _clean_template_tag_wrappers(self_text)
            /\ block_counter' = 0
            /\ pc' = "container"
            /\ UNCHANGED <<exc, message, block_options>>
       ELSE /\ raise_error("Container tags are not well-formed.")
            /\ UNCHANGED <<rendered_text, block_counter, block_options>>
    /\ UNCHANGED <<markup, db, self_text, block_titles, security_breaker, pos,
                   result, outside_pre>>

\* A pass of the loop of create_containers, lines 111-223
container(match) ==
    /\ match.end > 0
    /\ rendered_text' =
           container_rewrite(rendered_text, match,
                             SubSeq(rendered_text, match.start,
                                     match.end - 1),
                             block_counter)
    /\ block_titles' = titles_after(block_titles, match, block_counter)
    /\ block_counter' = counter_after(block_counter, match)
    /\ block_options' = options_after(block_options, match)
    /\ count_iteration(CONTAINER_LIMIT, "Too many container elements.")

Container ==
    /\ pc = "container"
    /\ container(search_from(rendered_text, 1, "container"))
    /\ UNCHANGED <<markup, db, self_text, pos, result, outside_pre>>

\* The loop of create_containers ends and _wrap_cells_in_rows starts, lines
\* 226 and 252-253
containers_done(match) == match.end = 0

ContainersWrap ==
    /\ pc = "container"
    /\ containers_done(search_from(rendered_text, 1, "container"))
    /\ result' = <<>>
    /\ pos' = 0
    /\ pc' = "wrap"
    /\ UNCHANGED <<exc, markup, db, self_text, block_titles, rendered_text,
                   security_breaker, block_counter, block_options, message,
                           outside_pre>>

\* A pass of the loop of _wrap_cells_in_rows that finds a cell start, lines
\* 255-291; c is the position of the cell start, counted from 1
wrap_row(c, row) ==
    /\ result' = result \o row_parts(SubSeq(rendered_text, pos + 1, c - 1),
            row)
    /\ pos' = row.pos - 1

wrap_cells(c) ==
    /\ c > 0
    /\ wrap_row(c, collect_cells(rendered_text, c, <<>>))

WrapCells ==
    /\ pc = "wrap"
    /\ pos < Len(rendered_text)
    /\ Len(result) < MaxResultParts
    /\ wrap_cells(Find(rendered_text, <<"[", "[", "C", "E", "L", "L", "_",
            "S", "T", "A", "R", "T", ":">>, pos + 1))
    /\ UNCHANGED <<pc, exc, markup, db, self_text, block_titles,
            rendered_text,
                   security_breaker, block_counter, block_options, message,
                           outside_pre>>

\* The loop of _wrap_cells_in_rows ends (lines 255 and 259-262), the parts are
\* joined, create_containers returns and create_toc runs (lines 226-230, 293
\* and 630-631).
wrap_rest(c) ==
    IF pos < Len(rendered_text)
    THEN Append(result, SubSeq(rendered_text, pos + 1, Len(rendered_text)))
    ELSE result

wrap_return(c, parts) ==
    /\ pos >= Len(rendered_text) \/ c = 0
    /\ result' = parts
    /\ self_text' = Concat(parts)
    /\ rendered_text' = Concat(parts)
    /\ pc' = "toc"

wrap_done(c) == wrap_return(c, wrap_rest(c))

WrapReturn ==
    /\ pc = "wrap"
    /\ wrap_done(Find(rendered_text, <<"[", "[", "C", "E", "L", "L", "_",
            "S", "T", "A", "R", "T", ":">>, pos + 1))
    /\ UNCHANGED <<exc, markup, db, block_titles, security_breaker,
                   block_counter, block_options, pos, message, outside_pre>>

\* create_toc and the entry of create_ui_elements, lines 369-392 and 317-319
CreateToc ==
    /\ pc = "toc"
    /\ next_pass(create_toc(self_text, block_titles), "ui")
    /\ UNCHANGED <<exc, markup, db, block_titles, block_counter,
            block_options, pos, result,
                   message, outside_pre>>

\* A pass of the loop of create_ui_elements without the test of the ceiling
ui_element_unchecked(match) ==
    /\ match.end > 0
    /\ rendered_text' = render_ui_element(db, match, rendered_text)
    /\ security_breaker' = security_breaker + 1
    /\ UNCHANGED <<pc, exc, message>>

\* A pass of the loop of create_ui_elements, lines 320-327
ui_element(match) ==
    /\ match.end > 0
    /\ rendered_text' = render_ui_element(db, match, rendered_text)
    /\ count_iteration(MAX_ITERATIONS,
            "Too many UI element rendering iterations.")

UiElement ==
    /\ pc = "ui"
    /\ ui_element(search_from(rendered_text, 1, "ui_element"))
    /\ UNCHANGED <<markup, db, self_text, block_titles, block_counter,
            block_options, pos,
                   result, outside_pre>>

\* create_ui_elements returns and create_urls starts, lines 328 and 350-352
pass_done(match) == match.end = 0

UiElementsReturn ==
    /\ pc = "ui"
    /\ pass_done(search_from(rendered_text, 1, "ui_element"))
    /\ next_pass(rendered_text, "urls")
    /\ UNCHANGED <<exc, markup, db, block_titles, block_counter,
            block_options, pos, result,
                   message, outside_pre>>

\* A pass of the loop of create_urls, lines 353-366
url(match) ==
    /\ match.end > 0
    /\ rendered_text' = render_url(db, match, rendered_text)
    /\ count_iteration(MAX_ITERATIONS, "Too many URL rendering iterations.")

Url ==
    /\ pc = "urls"
    /\ url(search_from(rendered_text, 1, "url_element"))
    /\ UNCHANGED <<markup, db, self_text, block_titles, block_counter,
            block_options, pos,
                   result, outside_pre>>

\* create_urls returns and create_links starts, lines 367 and 332-334
UrlsReturn ==
    /\ pc = "urls"
    /\ pass_done(search_from(rendered_text, 1, "url_element"))
    /\ next_pass(rendered_text, "links")
    /\ UNCHANGED <<exc, markup, db, block_titles, block_counter,
            block_options, pos, result,
                   message, outside_pre>>

\* A pass of the loop of create_links, lines 335-345
link(match) ==
    /\ match.end > 0
    /\ rendered_text' = render_element(db, match, rendered_text)
    /\ count_iteration(MAX_ITERATIONS,
            "Too many link elements rendering iterations.")

Link ==
    /\ pc = "links"
    /\ link(search_from(rendered_text, 1, "link_element"))
    /\ UNCHANGED <<markup, db, self_text, block_titles, block_counter,
            block_options, pos,
                   result, outside_pre>>

\* create_links returns and get_pre_rendered_text returns self.text, lines
\* 346 and 634-637
LinksReturn ==
    /\ pc = "links"
    /\ pass_done(search_from(rendered_text, 1, "link_element"))
    /\ self_text' = rendered_text
    /\ pc' = "returned"
    /\ UNCHANGED <<exc, markup, db, block_titles, rendered_text,
                   security_breaker, block_counter, block_options, pos,
                           result, message,
                   outside_pre>>

NextPre ==
    \/ NewTextPreRenderer
    \/ GetPreRenderedText
    \/ CodeBlock
    \/ CodeBlocksReturn
    \/ CreateContainers
    \/ Container
    \/ ContainersWrap
    \/ WrapCells
    \/ WrapReturn
    \/ CreateToc
    \/ UiElement
    \/ UiElementsReturn
    \/ Url
    \/ UrlsReturn
    \/ Link
    \/ LinksReturn

SpecPre == Init /\ [][NextPre]_vars

\* ---------------------------------------------------------------------------
\* Two calls of get_formatted_string on one TemplateString, with the filter
\* that asks uuid.uuid4() for an id (template_string.py, lines 277-304;
\* filters.py, lines 1225-1299)
\* ---------------------------------------------------------------------------

\* Pieces of the templates rendered twice: text, placeholders with and
\* without the truncate filter, a length that is no number.
TwicePieces ==
    {<<"x", " ">>,
     <<"{", "a", "}">>,
     <<"{", "v", "|", "u", "p", "p", "e", "r", "}">>,
     <<"{", "a", "|", "t", "r", "u", "n", "c", "a", "t", "e", "}">>,
     <<"{", "a", "|", "t", "r", "u", "n", "c", "a", "t", "e", ":", "l", "e",
             "n", "g", "t", "h", "=", "1", "}">>,
     <<"{", "a", "|", "t", "e", "x", "t", ":", "l", "e", "n", "g", "t", "h",
             "=", "3", ",", "e", "l", "l", "i", "p", "s", "i", "s", "=", "~",
             "}">>,
     <<"{", "a", "|", "t", "r", "u", "n", "c", "a", "t", "e", ":", "l", "e",
             "n", "g", "t", "h", "=", "1", ",", "e", "x", "p", "a", "n", "d",
             "a", "b", "l", "e", "=", "f", "a", "l", "s", "e", "}">>,
     <<"{", "a", "|", "t", "r", "u", "n", "c", "a", "t", "e", ":", "l", "e",
             "n", "g", "t", "h", "=", "x", "}">>}

TwiceTemplates ==
    {Concat(ps) : ps \in UNION {[1..n -> TwicePieces] : n \in 1..MaxPieces}}

\* Documents without lists, so that an iteration of the loop of
\* get_formatted_string renders one value and asks for one id at most.
TwiceDocs ==
    {VDict(<<>>, <<>>),
     VDict(<<K_a, K_v>>, <<VStr(<<"p", "q">>), VStr(<<"p">>)>>),
     VDict(<<K_a, K_v>>, <<VStr(<<"p", " ", "q", " ", "<", "r", ">">>),
             VStr(<<"p">>)>>),
     VDict(<<K_a, K_v>>, <<VNone, VStr(<<"p">>)>>),
     VDict(<<K_a, K_v>>, <<VInt(<<"5", "2">>), VStr(<<"p">>)>>)}

\* Values of uuid.uuid4().hex[:8], each kept as one piece of text
Uuids == {<<"1a2b3c4d">>, <<"9f8e7d6c">>}

\* TemplateString(string, data, show_errors); the id the first uuid4() call
\* will give is any.
ConstructTwice ==
    /\ pc = "new"
    /\ \E t \in TwiceTemplates, d \in TwiceDocs, se \in BOOLEAN :
          construct_with(t, d, se, html_unescape(t))
    /\ uuid' \in Uuids
    /\ UNCHANGED <<formatted_string, vi, branch, subst, first_string, again>>
    /\ UNCHANGED <<parse_vars, sanitize_vars, pre_vars>>

\* get_formatted_string, lines 281-302: one iteration of the loop; the id
\* the next uuid4() call will give is any.
RenderTwice ==
    /\ pc = "loop"
    /\ vi <= Len(variables)
    /\ render_step(render_variable(variables[vi], data, show_errors))
    /\ uuid' \in Uuids
    /\ UNCHANGED <<template, data, show_errors, string, variables,
                   first_string, again>>
    /\ UNCHANGED <<parse_vars, sanitize_vars, pre_vars>>

\* get_formatted_string is called again on the same object, line 280; the
\* caller keeps what the first call returned.
SecondCall ==
    /\ pc = "done"
    /\ ~again
    /\ first_string' = formatted_string
    /\ again' = TRUE
    /\ formatted_string' = string
    /\ vi' = 1
    /\ pc' = "loop"
    /\ UNCHANGED <<template, data, show_errors, string, variables, branch,
                   subst, exc, uuid>>
    /\ UNCHANGED <<parse_vars, sanitize_vars, pre_vars>>

NextTwice ==
    \/ ConstructTwice
    \/ GetFormattedString
    \/ RenderTwice
    \/ Return
    \/ SecondCall

SpecTwice == Init /\ [][NextTwice]_vars

\* ---------------------------------------------------------------------------
\* Properties of the pre-renderer
\* ---------------------------------------------------------------------------

\* The text holds a bracket token: '[[' with a ']]' after it.
HasBracketToken(s) ==
    \E i \in 1..Len(s) : \E j \in (i + 2)..Len(s) :
        StartsWithAt(s, <<"[", "[">>, i) /\ StartsWithAt(s, <<"]", "]">>, j)

\* C14: for a text without any bracket token, get_pre_rendered_text returns
\* the text as it was given, empty paragraphs and <br> tags included.
C14_NoTokensUnchanged ==
    pc = "returned" /\ ~HasBracketToken(markup) => self_text = markup

STRUCTURAL_ERROR == "Container tags are not well-formed."

\* C15: when the structural tag error is raised no pass has rewritten
\* anything: the text of the renderer is still the text it was given.
C15_NothingRewritten ==
    pc = "raised" /\ message = STRUCTURAL_ERROR => self_text = markup

\* The tags of one type, taken left to right, never close more than was
\* opened and close all that was opened.
RECURSIVE Matched(_, _, _)
Matched(matches, type, open) ==
    IF matches = <<>> THEN open = 0
    ELSE IF Head(matches).type # type THEN Matched(Tail(matches), type, open)
    ELSE IF Head(matches).action = "start"
    THEN Matched(Tail(matches), type, open + 1)
    ELSE open > 0 /\ Matched(Tail(matches), type, open - 1)

ProperlyMatched(matches) ==
    Matched(matches, "block", 0) /\ Matched(matches, "cell", 0)

\* C16: when create_containers does not raise the structural tag error, the
\* block tags and the cell tags of its text are matched in order: each end
\* tag has its start tag before it.
C16_MatchedInOrder ==
    pc = "container" => ProperlyMatched(finditer_from(self_text, 1))

\* C17: get_pre_rendered_text ends on every text.  Every pass of the loop of
\* _wrap_cells_in_rows that does not leave the loop moves on in the text (a
\* pass that leaves pos where it was is repeated without end, the text and
\* pos being all it reads).
C17_RowLoopMovesOn ==
    [][(pc = "wrap" /\ pc' = "wrap") => pos' > pos]_vars

CODE_CEILING_ERROR == "Too many code block rendering iterations."

\* C18: the loop of create_code_blocks ends on every text: it never runs
\* past the ceiling, and a text whose code blocks are not resolved after
\* MAX_ITERATIONS passes, nested ones included, ends in the iteration-limit
\* error at pass MAX_ITERATIONS + 1.
C18_CodeBlocksEnd ==
    /\ pc = "code" => security_breaker <= MAX_ITERATIONS
    /\ pc = "raised" /\ message = CODE_CEILING_ERROR =>
           /\ security_breaker = MAX_ITERATIONS + 1
           /\ self_text = markup

C18_Witness ==
    /\ pc = "raised"
    /\ message = CODE_CEILING_ERROR
    /\ markup = NestedCode

CeilingErrors ==
    {CODE_CEILING_ERROR, "Too many container elements.",
     "Too many UI element rendering iterations.",
     "Too many URL rendering iterations.",
     "Too many link elements rendering iterations."}

LoopedPasses == {"code", "container", "ui", "urls", "links"}

\* C19: a looped pass raises the iteration-limit error exactly when its loop
\* has made more than MAX_ITERATIONS passes, the container pass with the
\* same ceiling as the others; a text that needs MAX_ITERATIONS passes of a
\* loop is rendered to the end.
C19_Ceiling ==
    /\ CONTAINER_LIMIT = MAX_ITERATIONS
    /\ pc # "raised" => security_breaker <= MAX_ITERATIONS
    /\ pc = "raised" /\ message \in CeilingErrors =>
           security_breaker = MAX_ITERATIONS + 1
    /\ pc = "raised" /\ message \notin CeilingErrors =>
           message = STRUCTURAL_ERROR /\ security_breaker <= MAX_ITERATIONS
    /\ \A pass \in LoopedPasses :
           markup = Tokens(AtCeiling(pass), pass) =>
               /\ pc # "raised"
               /\ pc = "returned" => ~HasBracketToken(self_text)

C19_Witness ==
    /\ pc = "returned"
    /\ markup = Tokens(MAX_ITERATIONS, "links")
    /\ security_breaker = MAX_ITERATIONS

\* The first token of the pass at pc in s: where it starts and the position
\* after it.
code_token(s, start_match, e) ==
    IF e = 0 THEN NoMatch
    ELSE [start |-> start_match.start, end |-> e + Len(CODE_END)]

code_token_of(s, start_match) ==
    code_token(s, start_match, code_end_position(s, start_match))

toc_token(i) == IF i = 0 THEN NoMatch ELSE [start |-> i, end |-> i + Len(TOC)]

first_token(pass, s) ==
    CASE pass = "code" -> code_token_of(s, search_from(s, 1, "code_start"))
      [] pass = "toc" -> toc_token(Find(s, TOC, 1))
      [] pass = "ui" -> search_from(s, 1, "ui_element")
      [] pass = "urls" -> search_from(s, 1, "url_element")
      [] pass = "links" -> search_from(s, 1, "link_element")

\* t is s with the text of token replaced by some text and nothing else
\* changed.
OnlyReplaced(s, t, token) ==
    /\ token.end > 0
    /\ Len(t) >= token.start - 1 + Len(s) - token.end + 1
    /\ SubSeq(t, 1, token.start - 1) = SubSeq(s, 1, token.start - 1)
    /\ SubSeq(t, Len(t) - (Len(s) - token.end), Len(t))
           = SubSeq(s, token.end, Len(s))

\* C20: a step of the code, toc, element, url or link pass that rewrites the
\* text replaces one token occurrence, the first of the text, and leaves the
\* rest of the text as it was.
C20_OneTokenAtATime ==
    [][(pc \in {"code", "toc", "ui", "urls", "links"}
            /\ rendered_text' # rendered_text)
       => OnlyReplaced(rendered_text, rendered_text',
                       first_token(pc, rendered_text))]_vars


\* ---------------------------------------------------------------------------
\* The table of contents, the links and the block parameters
\* ---------------------------------------------------------------------------

\* The start_block tags with a title among the container tags of a text, in
\* the order of the text, each with the anchor id of its block (the blocks
\* are counted from 1, with and without title).
RECURSIVE TitledBlocks(_, _)
TitledBlock(match, n) ==
    IF _parse_block_options(match.param).title = <<>> THEN <<>>
    ELSE <<[title |-> _parse_block_options(match.param).title,
            anchor |-> anchor_id(n, _parse_block_options(match.param))]>>

TitledBlocks(matches, n) ==
    IF matches = <<>> THEN <<>>
    ELSE IF Head(matches).type = "block" /\ Head(matches).action = "start"
    THEN TitledBlock(Head(matches), n) \o TitledBlocks(Tail(matches), n + 1)
    ELSE TitledBlocks(Tail(matches), n)

\* The list of links to the blocks; nothing for no block.
RECURSIVE TocLinks(_)
TocLinks(blocks) ==
    IF blocks = <<>> THEN <<>>
    ELSE <<TOC_ITEM_OPEN>> \o Head(blocks).anchor \o <<TAG_CLOSE>>
             \o Head(blocks).title \o <<TOC_ITEM_CLOSE>>
             \o TocLinks(Tail(blocks))

TocList(blocks) ==
    IF blocks = <<>> THEN <<>>
    ELSE <<TOC_OPEN>> \o TocLinks(blocks) \o <<TOC_CLOSE>>

\* t is s with every [[toc]] replaced by the list of the blocks, and each
\* block of the list is a card of s with the anchor as its id.
TocReplaced(blocks, s, t) ==
    /\ t = replace_all(s, TOC, TocList(blocks))
    /\ ~Contains(t, TOC)
    /\ \A k \in 1..Len(blocks) :
           Contains(s, <<CARD_OPEN>> \o blocks[k].anchor \o <<TAG_CLOSE>>)

\* C21: create_toc replaces [[toc]] by one link per start_block with a title,
\* in the order of the text, each to the anchor id of its block, wherever
\* [[toc]] stands; without a titled block the token is removed.  (Texts
\* without code blocks: their container tags are the ones of the text given.)
C21_TocLinks ==
    [][(pc = "toc" /\ ~Contains(markup, <<"[", "[", "s", "t", "a", "r", "t",
            "_", "c", "o", "d", "e">>))
       => TocReplaced(TitledBlocks(finditer_from(markup, 1), 1),
                      rendered_text, rendered_text')]_vars

C21_Witness ==
    /\ pc = "ui"
    /\ security_breaker = 0
    /\ markup = TocExample
    /\ Len(block_titles) = 2
    /\ StartsWithAt(rendered_text, <<TOC_OPEN>>, 1)

\* The id has the form dddd-dddd-dddd-ddd(d|X).
AllDigits(s) == \A k \in 1..Len(s) : s[k] \in DigitChars

OrcidGroups(groups) ==
    /\ Len(groups) = 4
    /\ \A k \in 1..4 : Len(groups[k]) = 4
    /\ \A k \in 1..3 : AllDigits(groups[k])
    /\ AllDigits(SubSeq(groups[4], 1, 3))
    /\ groups[4][4] \in DigitChars \cup {"X"}

WellFormedOrcid(id) == OrcidGroups(str_split(id, "-"))

\* The anchor to https://orcid.org/id, or the notice for an id that is not
\* well-formed.
OrcidHtml(id) ==
    IF WellFormedOrcid(id)
    THEN <<ORCID_OPEN>> \o id \o <<ORCID_IMAGE>> \o id \o <<ORCID_CLOSE>>
    ELSE <<INVALID_ORCID>> \o id \o <<SPAN_CLOSE>>

\* A pass of the link loop on the ORCID token of match: the token is replaced
\* by the anchor or the notice and is gone from the text.
OrcidReplaced(match, s, t) ==
    match.end > 0 /\ match.template = <<"o", "r", "c", "i", "d">> =>
        /\ t = replace_all(s, token_text(match), OrcidHtml(match.name))
        /\ ~Contains(t, token_text(match))

\* C22: the link pass raises nothing for an ORCID token: a pass of its loop
\* replaces the token by the anchor to https://orcid.org/id when the id is
\* well-formed and by the notice 'Invalid ORCID' when it is not, the only
\* error of the loop is the one of the iteration ceiling, and when the pass
\* returns no link token is left in the text.
C22_Orcid ==
    [][pc = "links" =>
           /\ OrcidReplaced(search_from(rendered_text, 1, "link_element"),
                            rendered_text, rendered_text')
           /\ pc' = "raised" => security_breaker' > MAX_ITERATIONS
           /\ pc' = "returned" =>
                  search_from(self_text', 1, "link_element").end = 0]_vars

OrcidExample == <<"[", "[", "o", "r", "c", "i", "d", "|", "0", "0", "0", "0",
        "-", "0", "0", "0", "2", "-", "1", "8", "2", "5", "-", "0", "0", "9",
        "7", "]", "]", "[", "[", "f", "i", "l", "e", "|", "1", "]", "]", "[",
        "[", "p", "l", "o", "t", "l", "y", "|", "1", "]", "]", "[", "[", "u",
        "r", "l", "|", "]", "]">>

C22_Witness ==
    /\ pc = "returned"
    /\ markup = OrcidExample
    /\ StartsWithAt(self_text,
                    <<ORCID_OPEN>> \o <<"0", "0", "0", "0", "-", "0", "0",
                            "0", "2", "-", "1", "8", "2", "5", "-", "0", "0",
                            "9", "7">> \o <<ORCID_IMAGE>>,
                    1)

\* The parameters of a block as the docstring of _parse_block_options gives
\* them: a list of key=value pairs of the three options, or a title, or a
\* title and after a colon the pairs.
OptionKeys == {<<"t", "i", "t", "l", "e">>, <<"c", "o", "l", "l", "a", "p",
        "s", "i", "b", "l", "e">>, <<"c", "o", "l", "l", "a", "p", "s", "a",
        "b", "l", "e">>, <<"b", "a", "c", "k", "_", "t", "o", "_", "t", "o",
        "p">>}

IsOptionPair(pair) ==
    HasChar(pair, "=")
        /\ str_lower(strip(split_first(pair, "=")[1])) \in OptionKeys

IsOptionList(pairs) == \A k \in 1..Len(pairs) : IsOptionPair(pairs[k])

TitleWithOptions(parts) ==
    [read_pairs(NoOptions, str_split(parts[2], ","))
        EXCEPT !.titled = TRUE, !.title = parts[1]]

DocumentedOptions(param) ==
    IF HasChar(param, ":") THEN TitleWithOptions(split_first(param, ":"))
    ELSE IF IsOptionList(str_split(param, ","))
    THEN read_pairs(NoOptions, str_split(param, ","))
    ELSE [NoOptions EXCEPT !.titled = TRUE, !.title = param]

BlockParsed(match, after) ==
    match.end > 0 /\ match.type = "block" /\ match.action = "start"
        /\ match.param # <<>>
    => after = DocumentedOptions(match.param)

\* C24: the parameters of a start_block are parsed into title, collapsible
\* and back_to_top as documented: a bare title is the title as it stands, a
\* list of key=value pairs sets the options, and a title followed by a colon
\* and pairs gives the title and the options.
C24_BlockOptions ==
    [][pc = "container" =>
           BlockParsed(search_from(rendered_text, 1, "container"),
                       block_options')]_vars

\* ---------------------------------------------------------------------------
\* Cells and rows
\* ---------------------------------------------------------------------------

\* A cell of the text the container loop leaves: a start marker with its
\* attribute up to the next end marker.
CELL_START == <<"[", "[", "C", "E", "L", "L", "_", "S", "T", "A", "R", "T",
        ":">>

CELL_END == <<"[", "[", "C", "E", "L", "L", "_", "E", "N", "D", "]", "]">>

CellFrom(s, p, a, e) ==
    [attr |-> SubSeq(s, p + Len(CELL_START), a - 1),
     content |-> SubSeq(s, a + 2, e - 1), next |-> e + Len(CELL_END)]

CellClosed(s, p, a) == CellFrom(s, p, a, Find(s, CELL_END, a + 2))

CellOf(s, p) == CellClosed(s, p, Find(s, <<"]", "]">>, p + Len(CELL_START)))

\* The position of the cell that follows a cell with nothing but white space
\* between them; 0 when no cell follows.
FollowingCell(s, n) == IF StartsWithAt(s, CELL_START, n) THEN n ELSE 0

CellAfter(s, cell) == FollowingCell(s, SkipSpace(s, cell.next))

\* The child divs of the run of cells that starts at p, and where the run
\* ends.
RECURSIVE RunDivs(_, _)
RunRest(s, cell, n) ==
    <<"<", "d", "i", "v",
            " ">> \o cell.attr \o <<">">> \o cell.content \o <<"<", "/", "d",
            "i", "v", ">">>
        \o (IF n = 0 THEN <<>> ELSE RunDivs(s, n))

RunOf(s, cell) == RunRest(s, cell, CellAfter(s, cell))

RunDivs(s, p) == RunOf(s, CellOf(s, p))

RECURSIVE RunStop(_, _)
RunStopAfter(s, cell, n) == IF n = 0 THEN cell.next ELSE RunStop(s, n)

RunStopOf(s, cell) == RunStopAfter(s, cell, CellAfter(s, cell))

RunStop(s, p) == RunStopOf(s, CellOf(s, p))

\* The text from p with every maximal run of cells in one row wrapper.
RECURSIVE Rows(_, _)
RowsAt(s, p, c) ==
    IF c = 0 THEN SubSeq(s, p, Len(s))
    ELSE SubSeq(s, p, c - 1) \o <<ROW_OPEN>> \o RunDivs(s, c) \o <<DIV_CLOSE>>
             \o Rows(s, RunStop(s, c))

Rows(s, p) == RowsAt(s, p, Find(s, CELL_START, p))

\* The marker of a start_cell with a width carries the width.
WidthCarried(match, s, t) ==
    match.end > 0 /\ match.type = "cell" /\ match.action = "start"
        /\ match.param # <<>>
    => Contains(SubSeq(t, match.start, Find(t, <<"]", "]">>, match.start)),
                str_replace(strip(match.param), <<",">>, <<" ">>))

Count(s, c) == Cardinality({k \in 1..Len(s) : s[k] = c})

\* C25: when _wrap_cells_in_rows returns, every maximal run of cells with
\* nothing but white space between them stands in one row wrapper, as one
\* div per cell in the order of the text with the attribute of the cell, and
\* cells with other text between them stand in different wrappers; the
\* attribute of a cell holds the width of its start_cell.
C25_Rows ==
    [][/\ (pc = "wrap" /\ pc' = "toc") => self_text' = Rows(rendered_text, 1)
       /\ pc = "container" =>
              WidthCarried(search_from(rendered_text, 1, "container"),
                           rendered_text, rendered_text')]_vars

C25_Witness ==
    /\ pc = "toc"
    /\ markup = CellsExample
    /\ Count(self_text, ROW_OPEN) = 2
    /\ Contains(self_text, <<"<", "/", "d", "i", "v", ">", "<", "d", "i",
            "v", " ", "c", "l", "a", "s", "s", "=", "\"", "c", "e", "l", "l",
            "-", "b", "l", "o", "c", "k", "\"", " ", "s", "t", "y", "l", "e",
            "=", "\"", "f", "l", "e", "x", ":", " ", "1", ";", " ", "m", "i",
            "n", "-", "w", "i", "d", "t", "h", ":", " ", "0", ";", "\"", ">",
            "y", "<", "/", "d", "i", "v", ">">>)

\* ---------------------------------------------------------------------------
\* UI elements that render to their own token
\* ---------------------------------------------------------------------------

ElementToken(name) == <<"[", "[", "e", "l", "e", "m", "e", "n", "t",
        "|">> \o name \o <<"]", "]">>

\* Every element of the database renders to a text with the token of an
\* element of the database in it: itself, or the next of a cycle.
ElementsLoop(base) ==
    /\ DOMAIN base.elements # {}
    /\ \A n \in DOMAIN base.elements :
           \E m \in DOMAIN base.elements :
               Contains(base.elements[n], ElementToken(m))

UI_CEILING_ERROR == "Too many UI element rendering iterations."

\* C26: with UI elements that render to their own token, or to the tokens of
\* each other, the loop of create_ui_elements does not run on: it never
\* starts a pass beyond the ceiling, a token is left after every pass, and
\* the call ends with the iteration-limit error raised after pass
\* MAX_ITERATIONS + 1; get_pre_rendered_text returns no text.
C26_SelfReference ==
    /\ pc = "ui" => security_breaker <= MAX_ITERATIONS
    /\ ElementsLoop(db) /\ Contains(markup, ElementToken(<<"e">>)) =>
           /\ pc # "returned"
           /\ pc \in {"urls", "links"} => FALSE
           /\ pc = "ui" =>
                  search_from(rendered_text, 1, "ui_element").end > 0
    /\ pc = "raised" /\ message = UI_CEILING_ERROR =>
           /\ security_breaker = MAX_ITERATIONS + 1
           /\ exc = "PreRenderError"

C26_Witness ==
    /\ pc = "raised"
    /\ message = UI_CEILING_ERROR
    /\ db.elements = ElementCycle
    /\ security_breaker = MAX_ITERATIONS + 1

\* ---------------------------------------------------------------------------
\* The options of a block and the tag that closes it
\* ---------------------------------------------------------------------------

\* The place in matches of the start_block that the end_block after place i
\* closes, depth end_block tags being open between the two.
RECURSIVE StartOf(_, _, _)
StartOf(matches, i, depth) ==
    IF i = 0 THEN 0
    ELSE IF matches[i].type # "block" THEN StartOf(matches, i - 1, depth)
    ELSE IF matches[i].action = "end" THEN StartOf(matches, i - 1, depth + 1)
    ELSE IF depth = 0 THEN i
    ELSE StartOf(matches, i - 1, depth - 1)

\* The options given on the start_block of the block that tag k of matches
\* closes.
OwnOptions(matches, k) ==
    _parse_block_options(matches[StartOf(matches, k - 1, 0)].param)

\* The step from s to t closed a block with these options: a back-to-top
\* button when asked for, and as many div elements as the start tag opened
\* after its header (card and body, and the collapse div of a collapsible
\* block).
ClosedWith(options, s, t) ==
    /\ Count(t, BACK_TO_TOP) - Count(s, BACK_TO_TOP)
           = IF options.back_to_top THEN 1 ELSE 0
    /\ Count(t, DIV_CLOSE) - Count(s, DIV_CLOSE)
           = IF options.collapsible THEN 3 ELSE 2

IsEndBlock(match) ==
    match.end > 0 /\ match.type = "block" /\ match.action = "end"

\* An end_block without a start_block before it closes no block.
ClosesOwnBlock(matches, k, match, s, t) ==
    IsEndBlock(match) /\ StartOf(matches, k - 1, 0) > 0 =>
        ClosedWith(OwnOptions(matches, k), s, t)

\* C29: the pass of the loop of create_containers that rewrites an end_block
\* closes it with the options of the start_block of the same block, whatever
\* the blocks around it and in it: the button and the collapse div of that
\* block and of no other.
C29_OwnOptions ==
    [][pc = "container" =>
           ClosesOwnBlock(finditer_from(
                              _clean_template_tag_wrappers(self_text), 1),
                          security_breaker + 1,
                          search_from(rendered_text, 1, "container"),
                          rendered_text, rendered_text')]_vars

\* ---------------------------------------------------------------------------
\* What create_containers leaves in its text
\* ---------------------------------------------------------------------------

HasContainerToken(s) == search_from(s, 1, "container").end > 0

HasMarker(s) ==
    \/ Contains(s, <<"[", "[", "B", "L", "O", "C", "K", "_", "O", "P", "T",
            "I", "O", "N", "S", ":">>)
    \/ Contains(s, <<"[", "[", "C", "E", "L", "L", "_", "S", "T", "A", "R",
            "T", ":">>)
    \/ Contains(s, <<"[", "[", "C", "E", "L", "L", "_", "E", "N", "D", "]",
            "]">>)

Reached(v) == [ok |-> TRUE, val |-> v]

NotReached == [ok |-> FALSE, val |-> VNone]

KeyApplied(value, key) ==
    CASE value.t = "dict" ->
            IF HasKey(value, key) THEN Reached(Lookup(value, key))
            ELSE NotReached
      [] value.t = "list" ->
            IF isdigit(key) /\ StrToInt(key) < Len(value.xs)
            THEN Reached(value.xs[StrToInt(key) + 1]) ELSE NotReached
      [] value.t = "str" ->
            IF isdigit(key) /\ StrToInt(key) < Len(value.s)
            THEN Reached(VStr(<<value.s[StrToInt(key) + 1]>>)) ELSE NotReached
      [] OTHER -> NotReached

RECURSIVE KeysApplied(_, _, _)
KeysAppliedNext(r, keys, i) ==
    IF r.ok THEN KeysApplied(r.val, keys, i + 1) ELSE r

KeysApplied(value, keys, i) ==
    IF i > Len(keys) THEN Reached(value)
    ELSE KeysAppliedNext(KeyApplied(value, keys[i]), keys, i)

\* The resolver returned v without error, and v is what the keys reach.
EveryKeyApplied(r, reached) ==
    r.exc = "none" => reached.ok /\ reached.val = r.val

\* C28: when the resolution of a nested base path returns a value without
\* error, the value is the one reached by applying every key in order; no
\* key is passed over, whatever the value it meets.
C28_EveryKeyApplied ==
    Rendered /\ is_nested(variables[vi - 1]) =>
        EveryKeyApplied(get_nested_value(variables[vi - 1], data),
                        KeysApplied(data, variables[vi - 1].keys, 1))

\* ---------------------------------------------------------------------------
\* Replacement in place
\* ---------------------------------------------------------------------------

\* The template s from position i on with placeholder k and the ones after
\* it replaced where they stand by their own rendered values; doubled braces
\* are text.
RECURSIVE InPlace(_, _, _)
InPlaceAt(s, i, k, token) ==
    IF StartsWithAt(s, <<"{", "{">>, i) \/ StartsWithAt(s, <<"}", "}">>, i)
    THEN SubSeq(s, i, i + 1) \o InPlace(s, i + 2, k)
    ELSE IF token # <<>> /\ StartsWithAt(s, token, i)
    THEN render_variable(variables[k], data, show_errors).text
             \o InPlace(s, i + Len(token), k + 1)
    ELSE <<s[i]>> \o InPlace(s, i + 1, k)

InPlace(s, i, k) ==
    IF i > Len(s) THEN <<>>
    ELSE InPlaceAt(s, i, k,
                   IF k <= Len(variables) THEN raw_token(variables[k])
                   ELSE <<>>)

\* C27: what get_formatted_string returns is the template with each
\* placeholder replaced by its own rendered value, and the text put in for a
\* placeholder is not replaced again, also when it holds the text of a later
\* placeholder of the template.
C27_ReplacedInPlace ==
    pc = "done" => formatted_string = InPlace(string, 1, 1)

\* ---------------------------------------------------------------------------
\* Rendering twice
\* ---------------------------------------------------------------------------

\* C23: two calls of get_formatted_string on the same template string and
\* the same data document return the same string, whatever filters the
\* template names, and the data document is the one that was given.
C23_SameOutput ==
    pc = "done" /\ again => formatted_string = first_string

====
